---- MODULE Spec2Model ----
(***************************************************************************)
(* Disaster-Response backend: the cache service (a key/value table with   *)
(* per-entry expiry in the hosted database) and the real-time aggregator  *)
(* that polls the upstream sources through it and pushes the snapshot to  *)
(* the socket subscribers.                                                 *)
(*                                                                         *)
(* Time is the value of Date.now(), in milliseconds.  In the cache        *)
(* service every await is a separate step, so the steps of concurrent     *)
(* calls interleave the way the event loop lets them.  In the aggregator  *)
(* a step is one cache read, or one upstream request together with the    *)
(* cache write that follows it.  A call to the hosted database or to an   *)
(* upstream API either succeeds or fails; which, is chosen by the         *)
(* environment.                                                            *)
(***************************************************************************)
EXTENDS Integers, Sequences, FiniteSets, TLC

VARIABLES callsMade, now, clockSteps, cache, ops, cur, nullKind, answer,
          started, faults, calls, last, out,
          disastersTable, mockDisasters, resourcesTable, mockResources, reportsTable, mockReports, reqs, reqsMade,
          rooms, sockets, client, proc, reply

vars == <<callsMade, now, clockSteps, cache, ops, cur, nullKind, answer,
          started, faults, calls, last, out,
          disastersTable, mockDisasters, resourcesTable, mockResources, reportsTable, mockReports, reqs, reqsMade,
          rooms, sockets, client, proc, reply>>

\* the bookkeeping of the direct cache-service calls
directVars == <<callsMade, ops, cur, nullKind, answer>>

\* the aggregator: its calls in flight and what it has delivered
aggVars == <<started, faults, calls, last, out>>

\* the routes, the socket rooms and the process: the tables of the hosted
\* database, the in-memory fixture arrays, the requests in flight, the rooms of
\* the socket server, the socket service of a page, the state of the process
\* and what has just been answered
appVars == <<disastersTable, mockDisasters, resourcesTable, mockResources, reportsTable, mockReports, reqs, reqsMade,
             rooms, sockets, client, proc, reply>>

-----------------------------------------------------------------------------
(* Bounds of the model *)

\* how many times the clock is advanced in one behaviour
MaxClockSteps == 2
\* how many cache-service calls are made in one behaviour
MaxCalls == 3
\* how many aggregations (requests or poll ticks) are started in one behaviour
MaxAggregations == 2
\* how many calls to the database or to an upstream API fail in one behaviour
MaxFaults == 1
\* how many HTTP requests are made in one behaviour
MaxRequests == 3

-----------------------------------------------------------------------------
(* Program constants *)

\* set(): new Date(Date.now() + ttlSeconds * 1000)
MsPerSecond == 1000
\* startRealTimePolling(io, 30000)
PollIntervalMs == 30000
\* the ttl each getRealTimeX passes to setCachedData, in seconds
DisastersTtl == 120
SocialTtl == 60
WeatherTtl == 300
EmergencyTtl == 600
ResourcesTtl == 900
ReportsTtl == 300
\* searchDisasterPosts and getOfficialUpdates: setCachedData(cacheKey, posts, 300)
BlueskyTtl == 300
\* getDisastersFromBluesky: searchDisasterPosts(keywords, 20)
DisastersSearchLimit == 20
\* getRealTimeSocialMedia: searchDisasterPosts(keywords, 50)
SocialSearchLimit == 50
\* getOfficialUpdates(userHandles = [], limit = 20)
OfficialLimit == 20

-----------------------------------------------------------------------------
(* Data *)

\* an entry of a list: its id and, where the type has one, its disaster_id
Entry(id, did) == [id |-> id, disaster_id |-> did]

\* the alerts the weather API answers with
WeatherAlerts == <<Entry("w1", ""), Entry("w2", "")>>
\* the declarations the FEMA API answers with
FemaDeclarations == <<Entry("4001", "")>>
\* the shelters the Red Cross API answers with (OBJECTID)
RedCrossShelters == <<"7">>
\* the posts the social network answers a search with, and the feed of the
\* official accounts: the uri, and the digits of the first "disaster-<digits>"
\* of the text ("" when the text has none)
SearchedPosts == <<[uri |-> "p1", digits |-> "1"], [uri |-> "p2", digits |-> ""]>>
OfficialFeed == <<[uri |-> "o1", digits |-> ""]>>

\* the sources of the aggregate, in the order of the Promise.allSettled array
SourceNames == <<"disasters", "socialMedia", "weather", "emergencyAlerts", "resources", "reports">>
Sources == {SourceNames[i] : i \in DOMAIN SourceNames}
SourceIndex(s) == CHOOSE i \in DOMAIN SourceNames : SourceNames[i] = s

\* the upstream APIs
Apis == {"bluesky.login", "bluesky.search", "bluesky.feed", "weather.gov", "fema.gov", "redcross.org"}

\* the disaster_id a request may carry ("" is no disaster_id)
RequestFilters == {"", "all", "1"}
\* the time between two requests
RequestGaps == {6 * PollIntervalMs}

\* `realtime_<source>:${disasterId || 'all'}`
KeyPrefix(s) ==
    CASE s = "disasters" -> "realtime_disasters"
      [] s = "socialMedia" -> "realtime_social"
      [] s = "weather" -> "realtime_weather"
      [] s = "emergencyAlerts" -> "realtime_emergency"
      [] s = "resources" -> "realtime_resources"
      [] s = "reports" -> "realtime_reports"
CacheKey(s, disasterId) == KeyPrefix(s) \o ":" \o (IF disasterId # "" THEN disasterId ELSE "all")

\* `bluesky_search:${keywords.join(',')}` and `bluesky_official:${userHandles.join(',')}`
BlueskySearchKey == "bluesky_search:disaster,emergency,flood,fire,earthquake,hurricane,tornado"
BlueskyOfficialKey == "bluesky_official:"

TtlSeconds(s) ==
    CASE s = "disasters" -> DisastersTtl
      [] s = "socialMedia" -> SocialTtl
      [] s = "weather" -> WeatherTtl
      [] s = "emergencyAlerts" -> EmergencyTtl
      [] s = "resources" -> ResourcesTtl
      [] s = "reports" -> ReportsTtl

\* keys and inputs of the direct cache-service calls
OpKeys == {"realtime_weather:all", "realtime_social:all"}
OpValues == {<<>>, WeatherAlerts}
OpTtls == {1}
ClockDeltas == {MsPerSecond}

Keys == OpKeys \cup {CacheKey(s, f) : s \in Sources, f \in RequestFilters}
               \cup {BlueskySearchKey, BlueskyOfficialKey}

OpIds == 1..MaxCalls

-----------------------------------------------------------------------------
(* The cache table: at most one row per key *)

NoRow == [present |-> FALSE, value |-> <<>>, expires_at |-> 0]
Row(v, e) == [present |-> TRUE, value |-> v, expires_at |-> e]

\* what .select('*').eq('key', k).single() finds in table c
RowOf(c, k) == IF k \in DOMAIN c THEN c[k] ELSE NoRow

\* the value a get resolves with: null, or the stored value
Null == [isNull |-> TRUE, value |-> <<>>]
Val(v) == [isNull |-> FALSE, value |-> v]

\* set: expiresAt = new Date(Date.now() + ttlSeconds * 1000)
ExpiresAt(t, ttlSeconds) == t + ttlSeconds * MsPerSecond

\* get: expiresAt < new Date()
C3_MutantIsExpired(expiresAt, t) == expiresAt <= t
IsExpired(expiresAt, t) == expiresAt < t

\* clearExpired: .lt('expires_at', new Date().toISOString())
C4_MutantSweepMatches(expiresAt, threshold) == expiresAt <= threshold
SweepMatches(expiresAt, threshold) == expiresAt < threshold

\* set: .upsert({key, value, expires_at}) replaces the whole row
C10_MutantUpsert(c, k, v, e) == [j \in DOMAIN c \cup {k} |-> IF j # k THEN c[j] ELSE Row(v, IF RowOf(c, k).expires_at > e THEN c[k].expires_at ELSE e)]
Upsert(c, k, v, e) == [j \in DOMAIN c \cup {k} |-> IF j = k THEN Row(v, e) ELSE c[j]]

\* delete: .delete().eq('key', key)
DeleteKey(c, k) == [j \in DOMAIN c \ {k} |-> c[j]]

\* clearExpired: .delete().lt('expires_at', threshold)
DeleteExpired(c, threshold) == [k \in {j \in DOMAIN c : ~SweepMatches(c[j].expires_at, threshold)} |-> c[k]]

\* get, lines 17-30, once the select has answered: "null", "delete" (the row
\* has expired: delete it, then null) or "value"
C8_MutantGetDecision(ok, row, t) == IF ~ok \/ ~row.present THEN "null" ELSE "value"
GetDecision(ok, row, t) ==
    IF ~ok \/ ~row.present THEN "null"
    ELSE IF IsExpired(row.expires_at, t) THEN "delete"
    ELSE "value"

-----------------------------------------------------------------------------
(* Records of the aggregator *)

\* how the path of one source went in one aggregation: what the read of its
\* own key met ("live", "expired", "absent", or the read "failed"), the value
\* it was given on a hit, the upstream APIs it requested, those whose request
\* failed, whether the write of its own key failed, and whether a cache write
\* of a call nested in it failed
NoNote == [read |-> "none", cached |-> <<>>, fetched |-> {}, failed |-> {},
           writeFailed |-> FALSE, nestedWriteFailed |-> FALSE]

\* a call of getRealTimeDisasterData: for each source the position of its
\* path, the list it has gathered so far and the list it resolved with; calls
\* holds the calls in flight, under their numbers
IdleCall == [kind |-> "none", filter |-> "", tick |-> 0, overlapped |-> FALSE,
             pc |-> [s \in Sources |-> "idle"],
             acc |-> [s \in Sources |-> <<>>],
             val |-> [s \in Sources |-> <<>>],
             note |-> [s \in Sources |-> NoNote]]

\* the last poll that has broadcast: its tick and the sources whose upstream
\* request failed in it
NoLast == [tick |-> 0, failed |-> {}]

\* what has just been delivered (kept for one step): the response to a
\* request, or the events of a poll
NoOut == [kind |-> "none"]

AggIds == 1..MaxAggregations

-----------------------------------------------------------------------------
(* Direct calls of the cache service: get, set, clearExpired.  (No caller *)
(* of this repository uses delete other than get itself.)                 *)

\* what is known of the last write of a key: the value and expiry of the last
\* applied upsert, and whether it is undisturbed (no other call on the key was
\* in flight when it was applied, and no set of the key began since)
NoWrite == [valid |-> FALSE, value |-> <<>>, expires_at |-> 0]

\* a call as it begins; ops holds the calls in flight, under their numbers
IdleOp == [kind |-> "idle", key |-> "", pc |-> "idle", value |-> <<>>, t |-> 0,
           ok |-> TRUE, clean |-> FALSE, peer |-> "none", overlap |-> FALSE]

\* a call that has resolved leaves the calls in flight
Drop(f, i) == [j \in DOMAIN f \ {i} |-> f[j]]

\* the answer a caller has just been given (kept for one step)
NoAnswer == [kind |-> "none", key |-> "", ret |-> Null, value |-> <<>>, t |-> 0, ok |-> TRUE,
             clean |-> FALSE, afterNull |-> "none", peer |-> "none", overlap |-> FALSE,
             removed |-> {}]

\* the calls are numbered in the order they are made
NextCall(i) == i = callsMade + 1

GetCall(i, k) ==
    /\ NextCall(i)
    /\ callsMade' = callsMade + 1
    /\ ops' = ops @@ (i :> [IdleOp EXCEPT !.kind = "get", !.key = k, !.pc = "select",
                                              !.clean = cur[k].valid])
    /\ answer' = NoAnswer
    /\ UNCHANGED <<now, clockSteps, cache, cur, nullKind>>
    /\ UNCHANGED aggVars
    /\ UNCHANGED appVars

\* how a null of a get counts for the key: the read failed, or the entry was
\* found expired or gone
NullKindAfter(old, ok) == IF old = "expired" \/ ok THEN "expired" ELSE "failed"

GetAnswer(o, ret) ==
    [NoAnswer EXCEPT !.kind = "get", !.key = o.key, !.ret = ret, !.t = o.t, !.ok = o.ok,
                     !.clean = o.clean, !.afterNull = nullKind[o.key]]

\* the select answers with the row or with an error, and lines 17-30 run on
\* the answer
GetSelect(i) ==
    /\ i \in DOMAIN ops /\ ops[i].kind = "get" /\ ops[i].pc = "select"
    /\ \E ok \in BOOLEAN :
         LET o == [ops[i] EXCEPT !.t = now, !.ok = ok]
             row == IF ok THEN RowOf(cache, o.key) ELSE NoRow
             d == GetDecision(ok, row, now)
         IN  /\ ops' = IF d = "delete" THEN [ops EXCEPT ![i] = [o EXCEPT !.pc = "delete"]]
                        ELSE Drop(ops, i)
             /\ answer' = IF d = "delete" THEN NoAnswer
                          ELSE GetAnswer(o, IF d = "value" THEN Val(row.value) ELSE Null)
             /\ nullKind' = IF o.clean /\ d # "value"
                            THEN [nullKind EXCEPT ![o.key] = NullKindAfter(@, ok)]
                            ELSE nullKind
    /\ UNCHANGED <<callsMade, now, clockSteps, cache, cur>>
    /\ UNCHANGED aggVars
    /\ UNCHANGED appVars

\* line 25: await this.delete(key); a failing delete throws into get's catch;
\* either way get resolves with null
GetDelete(i) ==
    /\ i \in DOMAIN ops /\ ops[i].kind = "get" /\ ops[i].pc = "delete"
    /\ \E ok \in BOOLEAN : cache' = IF ok THEN DeleteKey(cache, ops[i].key) ELSE cache
    /\ ops' = Drop(ops, i)
    /\ answer' = GetAnswer(ops[i], Null)
    /\ UNCHANGED <<callsMade, now, clockSteps, cur, nullKind>>
    /\ UNCHANGED aggVars
    /\ UNCHANGED appVars

\* set, line 42: the expiry is fixed when set is called
SetCall(i, k, v, ttl) ==
    /\ NextCall(i)
    /\ callsMade' = callsMade + 1
    /\ ops' = [j \in DOMAIN ops \cup {i} |->
                 IF j = i
                 THEN [IdleOp EXCEPT !.kind = "set", !.key = k, !.pc = "upsert", !.value = v,
                                     !.t = ExpiresAt(now, ttl)]
                 ELSE IF ops[j].key = k THEN [ops[j] EXCEPT !.clean = FALSE] ELSE ops[j]]
    /\ cur' = [cur EXCEPT ![k].valid = FALSE]
    /\ answer' = NoAnswer
    /\ UNCHANGED <<now, clockSteps, cache, nullKind>>
    /\ UNCHANGED aggVars
    /\ UNCHANGED appVars

\* the database applies the upsert, or answers with an error and set throws
SetUpsert(i) ==
    /\ i \in DOMAIN ops /\ ops[i].kind = "set" /\ ops[i].pc = "upsert"
    /\ LET o == ops[i] IN
       \E ok \in BOOLEAN :
          /\ ops' = [j \in DOMAIN ops \ {i} |->
                       IF ok /\ ops[j].kind = "set" /\ ops[j].key = o.key
                       THEN [ops[j] EXCEPT !.peer = IF ops[j].value # o.value /\ ops[j].t # o.t
                                                    THEN "differs" ELSE "same"]
                       ELSE IF ok /\ ops[j].kind = "clearExpired"
                            THEN [ops[j] EXCEPT !.overlap = TRUE]
                            ELSE ops[j]]
          /\ cache' = IF ok THEN Upsert(cache, o.key, o.value, o.t) ELSE cache
          /\ cur' = IF ok
                    THEN [cur EXCEPT ![o.key] =
                            [valid |-> \A j \in DOMAIN ops : j # i => ops[j].key # o.key,
                             value |-> o.value, expires_at |-> o.t]]
                    ELSE cur
          /\ nullKind' = IF ok THEN [nullKind EXCEPT ![o.key] = "none"] ELSE nullKind
          /\ answer' = [NoAnswer EXCEPT !.kind = "set", !.key = o.key, !.value = o.value,
                                        !.t = o.t, !.ok = ok, !.peer = o.peer]
    /\ UNCHANGED <<callsMade, now, clockSteps>>
    /\ UNCHANGED aggVars
    /\ UNCHANGED appVars

\* clearExpired, line 92: the threshold is the time of the call
ClearCall(i) ==
    /\ NextCall(i)
    /\ callsMade' = callsMade + 1
    /\ ops' = ops @@ (i :> [IdleOp EXCEPT !.kind = "clearExpired", !.pc = "exec", !.t = now])
    /\ answer' = NoAnswer
    /\ UNCHANGED <<now, clockSteps, cache, cur, nullKind>>
    /\ UNCHANGED aggVars
    /\ UNCHANGED appVars

\* the database applies the bulk delete, or answers with an error and
\* clearExpired throws
ClearExec(i) ==
    /\ i \in DOMAIN ops /\ ops[i].kind = "clearExpired" /\ ops[i].pc = "exec"
    /\ \E ok \in BOOLEAN :
          /\ cache' = IF ok THEN DeleteExpired(cache, ops[i].t) ELSE cache
          /\ answer' = [NoAnswer EXCEPT !.kind = "clearExpired", !.t = ops[i].t, !.ok = ok,
                                        !.overlap = ops[i].overlap,
                                        !.removed = DOMAIN cache \ DOMAIN cache']
    /\ ops' = Drop(ops, i)
    /\ UNCHANGED <<callsMade, now, clockSteps, cur, nullKind>>
    /\ UNCHANGED aggVars
    /\ UNCHANGED appVars

\* time passes
Elapse(d) ==
    /\ clockSteps < MaxClockSteps
    /\ now' = now + d
    /\ clockSteps' = clockSteps + 1
    /\ answer' = NoAnswer
    /\ UNCHANGED <<callsMade, cache, ops, cur, nullKind>>
    /\ out' = NoOut
    /\ UNCHANGED <<started, faults, calls, last>>
    /\ UNCHANGED appVars

-----------------------------------------------------------------------------
(* Records of the routes *)

\* an entry of the audit trail of a disaster; every request of this model is
\* made without the x-user-id header
AuditEntry(action, t, details) ==
    [action |-> action, user_id |-> "anonymous", timestamp |-> t, details |-> details]

\* a row of the disasters table, or an element of the mockDisasters array
Disaster(id, title, description, location_name, located, audit_trail) ==
    [id |-> id, title |-> title, description |-> description, location_name |-> location_name,
     located |-> located, audit_trail |-> audit_trail]

\* mockDataService.ts: the fixture disasters
MockDisasters ==
    <<Disaster("disaster-1", "NYC Flood Emergency", "Heavy flooding in Manhattan", "Manhattan, NYC", TRUE, <<>>),
      Disaster("disaster-2", "California Wildfire", "Major wildfire spreading", "Los Angeles, CA", TRUE, <<>>),
      Disaster("disaster-3", "Texas Tornado", "Tornado touchdown reported", "Dallas, TX", TRUE, <<>>)>>

\* nothing has just been answered
NoReply == [kind |-> "none"]

\* a resource: location is the name of its point, "none" where the column
\* is null
Resource(id, disaster_id, name, location_name, location, type) ==
    [id |-> id, disaster_id |-> disaster_id, name |-> name, location_name |-> location_name,
     location |-> location, type |-> type, available |-> TRUE]

\* the resources table of a new deployment
StoredResources == <<>>

\* mockResources, the fixture array of mockDataService
MockResources ==
    <<Resource("resource-1", "disaster-1", "Red Cross Emergency Shelter", "Lower East Side, NYC",
               "40.7142,-73.9897", "shelter"),
      Resource("resource-2", "disaster-1", "Bellevue Hospital", "Manhattan, NYC",
               "40.7421,-73.9731", "hospital"),
      Resource("resource-3", "disaster-2", "LA County Fire Station", "Los Angeles, CA",
               "34.0522,-118.2437", "medical")>>

\* a row of the reports table, or an element of the fixture array
Report(id, disaster_id, user_id, content, image_url, verification_status) ==
    [id |-> id, disaster_id |-> disaster_id, user_id |-> user_id, content |-> content,
     image_url |-> image_url, verification_status |-> verification_status]

\* mockReports, the fixture array of mockDataService
MockReports ==
    <<Report("report-1", "disaster-1", "citizen1",
             "URGENT: Water level rising rapidly in Lower East Side. Need immediate evacuation assistance!",
             "https://example.com/flood-image-1.jpg", "verified"),
      Report("report-2", "disaster-1", "relief_worker",
             "Red Cross shelter now open at 123 Main St. Food and water available.", "", "verified"),
      Report("report-3", "disaster-2", "firefighter",
             "Fire spreading rapidly towards residential areas. Evacuation orders issued.",
             "https://example.com/fire-image-1.jpg", "pending")>>

\* the events of the server the model delivers to the page, and the callbacks
\* its components register
ClientEvents == {"realtime_update", "disaster_updated"}
Callbacks == {"handleRealTimeUpdate", "handleDisasterRealTimeUpdate"}

\* the SocketService of a page just loaded: socket is the socket the field
\* holds (0 is null), open maps each socket io() has made and nothing has
\* closed to whether it is connected, made counts the sockets made, and
\* listeners is the map of the callbacks registered for each event
NoClient ==
    [socket |-> 0, open |-> <<>>, made |-> 0, listeners |-> [e \in ClientEvents |-> <<>>]]

\* the process: whether it runs or has exited (and with what code), the lines
\* it has logged at the levels info, warn and error, and how many times the
\* sweep timer has fired
Running == [status |-> "running", exitCode |-> 0, log |-> <<>>, sweeps |-> 0]

\* the routes have answered nothing, no socket is connected, the process runs
AppInit ==
    /\ disastersTable = <<>>
    /\ mockDisasters = MockDisasters
    /\ resourcesTable = StoredResources
    /\ mockResources = MockResources
    /\ reportsTable = <<>>
    /\ mockReports = MockReports
    /\ reqs = <<>>
    /\ reqsMade = 0
    /\ rooms = <<>>
    /\ sockets = <<>>
    /\ client = NoClient
    /\ proc = Running
    /\ reply = NoReply

CacheInit ==
    /\ callsMade = 0
    /\ now = 0
    /\ clockSteps = 0
    /\ cache = <<>>
    /\ ops = <<>>
    /\ cur = [k \in OpKeys |-> NoWrite]
    /\ nullKind = [k \in OpKeys |-> "none"]
    /\ answer = NoAnswer
    /\ started = 0
    /\ faults = 0
    /\ calls = <<>>
    /\ last = NoLast
    /\ out = NoOut
    /\ AppInit

\* callers reading and writing the cache
CacheNext ==
    \/ \E i \in OpIds, k \in OpKeys : GetCall(i, k)
    \/ \E i \in OpIds : GetSelect(i)
    \/ \E i \in OpIds : GetDelete(i)
    \/ \E i \in OpIds, k \in OpKeys, v \in OpValues, ttl \in OpTtls : SetCall(i, k, v, ttl)
    \/ \E i \in OpIds : SetUpsert(i)
    \/ \E d \in ClockDeltas : Elapse(d)

SpecCache == CacheInit /\ [][CacheNext]_vars

\* the sweep running beside callers that write the cache
SweepNext ==
    \/ \E i \in OpIds, k \in OpKeys, v \in OpValues, ttl \in OpTtls : SetCall(i, k, v, ttl)
    \/ \E i \in OpIds : SetUpsert(i)
    \/ \E i \in OpIds : ClearCall(i)
    \/ \E i \in OpIds : ClearExec(i)
    \/ \E d \in ClockDeltas : Elapse(d)

SpecSweep == CacheInit /\ [][SweepNext]_vars

-----------------------------------------------------------------------------
(* The social adapter and the aggregator: what they compute *)

\* extractDisasterId: content.match(/disaster-(\d+)/), match[1] or 'general'
ExtractDisasterId(digits) == IF digits # "" THEN digits ELSE "general"

\* the SocialMediaPost built from a post of the network
ToPost(raw) == Entry(raw.uri, ExtractDisasterId(raw.digits))

RECURSIVE ToPosts(_)
ToPosts(raws) == IF raws = <<>> THEN <<>> ELSE <<ToPost(Head(raws))>> \o ToPosts(Tail(raws))

\* Array.slice(0, limit)
Take(list, limit) == SubSeq(list, 1, IF Len(list) < limit THEN Len(list) ELSE limit)

\* getMockPosts(keywords, limit), called at time t
C7_MutantMockPosts(t, limit) == Take(<<>>, limit)
MockPosts(t, limit) ==
    Take(<<Entry("mock-" \o ToString(t) \o "-1", "disaster-1"),
           Entry("mock-" \o ToString(t) \o "-2", "disaster-1"),
           Entry("mock-" \o ToString(t) \o "-3", "disaster-1")>>, limit)

\* searchPosts({q, limit}): the network answers with at most limit posts
SearchResponse(limit) == ToPosts(Take(SearchedPosts, limit))

\* getDisastersFromBluesky: id: `bluesky-${post.id}`
RECURSIVE BlueskyDisasters(_)
BlueskyDisasters(posts) ==
    IF posts = <<>> THEN <<>>
    ELSE <<Entry("bluesky-" \o Head(posts).id, "")>> \o BlueskyDisasters(Tail(posts))

\* getDisastersFromWeatherAlerts: id: `weather-${alert.id}`
RECURSIVE WeatherDisasters(_)
WeatherDisasters(alerts) ==
    IF alerts = <<>> THEN <<>>
    ELSE <<Entry("weather-" \o Head(alerts).id, "")>> \o WeatherDisasters(Tail(alerts))

\* getRealTimeResources: id: `redcross-${OBJECTID}`, disaster_id: disasterId || 'general'
RECURSIVE ShelterResources(_, _)
ShelterResources(shelters, disasterId) ==
    IF shelters = <<>> THEN <<>>
    ELSE <<Entry("redcross-" \o Head(shelters), IF disasterId # "" THEN disasterId ELSE "general")>>
         \o ShelterResources(Tail(shelters), disasterId)

\* disasterId ? disasters.filter(d => d.id === disasterId) : disasters
FilterDisasters(disasters, disasterId) ==
    IF disasterId # "" THEN SelectSeq(disasters, LAMBDA d : d.id = disasterId) ELSE disasters

\* disasterId ? posts.filter(p => p.disaster_id === disasterId) : posts
FilterPosts(posts, disasterId) ==
    IF disasterId # "" THEN SelectSeq(posts, LAMBDA p : p.disaster_id = disasterId) ELSE posts

\* the list a getRealTimeX caches and returns, from what it has gathered
Filtered(s, list, disasterId) ==
    CASE s = "disasters" -> FilterDisasters(list, disasterId)
      [] s = "socialMedia" -> FilterPosts(list, disasterId)
      [] OTHER -> list

\* getRealTimeDisasterData, lines 46-53: the value of a fulfilled path, []
\* for one that is not
C1_MutantSnapshot(call) ==
    [s \in Sources |-> IF \E r \in Sources : call.note[r].failed # {} THEN <<>> ELSE call.val[s]]
Snapshot(call) == [s \in Sources |-> IF call.pc[s] = "done" THEN call.val[s] ELSE <<>>]

\* startRealTimePolling, lines 471-482: one disaster_realtime_update for each
\* disaster of the snapshot, to the room of the disaster
C6_MutantScopedPayload(data, disasterId) ==
    [socialMedia |-> SelectSeq(data["socialMedia"], LAMBDA p : p.disaster_id = disasterId),
     weather |-> <<>>,
     emergencyAlerts |-> <<>>,
     resources |-> SelectSeq(data["resources"], LAMBDA r : r.disaster_id = disasterId)]
ScopedPayload(data, disasterId) ==
    [socialMedia |-> SelectSeq(data["socialMedia"], LAMBDA p : p.disaster_id = disasterId),
     weather |-> data["weather"],
     emergencyAlerts |-> data["emergencyAlerts"],
     resources |-> SelectSeq(data["resources"], LAMBDA r : r.disaster_id = disasterId)]

RECURSIVE ScopedEvents(_, _)
ScopedEvents(data, disasters) ==
    IF disasters = <<>> THEN <<>>
    ELSE <<[room |-> "disaster-" \o Head(disasters).id, disasterId |-> Head(disasters).id,
            data |-> ScopedPayload(data, Head(disasters).id)]>>
         \o ScopedEvents(data, Tail(disasters))

-----------------------------------------------------------------------------
(* The aggregator: calls, and the steps of the path of each source *)

Active(c) == c \in DOMAIN calls
NoCallInFlight == DOMAIN calls = {}

NewCall(kind, disasterId, tick) ==
    [IdleCall EXCEPT !.kind = kind, !.filter = disasterId, !.tick = tick,
                     !.pc = [s \in Sources |-> "read"]]

\* a call whose six reads of its own keys have all been answered
PastReads(c) == Active(c) /\ \A s \in Sources : calls[c].pc[s] # "read"

\* the order in which the steps are taken: in one call the six cache reads,
\* issued together, are answered in the order of the array, and then the paths
\* run on, each to its end; calls interleave while they wait for their reads,
\* and a call that is past its reads runs to its end before another moves
InOrder(c, s) ==
    LET p == calls[c].pc IN
    /\ Active(c)
    /\ \A d \in AggIds : d # c => ~PastReads(d)
    /\ IF p[s] = "read"
       THEN \A r \in Sources : SourceIndex(r) < SourceIndex(s) => p[r] # "read"
       ELSE /\ PastReads(c)
            /\ \A r \in Sources : SourceIndex(r) < SourceIndex(s) => p[r] = "done"

Advance(c, s, pc, acc, val, note) ==
    [calls EXCEPT ![c].pc[s] = pc, ![c].acc[s] = acc, ![c].val[s] = val, ![c].note[s] = note]

\* what a step of a path leaves alone
PathFrame ==
    /\ out' = NoOut
    /\ UNCHANGED <<now, clockSteps, started, last>>
    /\ UNCHANGED directVars
    /\ UNCHANGED appVars

\* what a row is to a reader at this instant
RowState(k) ==
    IF k \notin DOMAIN cache THEN "absent"
    ELSE IF cache[k].expires_at < now THEN "expired" ELSE "live"

\* getCachedData(k) as one step of its caller: the cache it leaves, the value
\* it resolves with, and whether a call to the database failed in it
ReadOutcomes(k) ==
    LET d == GetDecision(TRUE, RowOf(cache, k), now) IN
    {[cache |-> cache, ret |-> Null, read |-> "failed", fault |-> 1]}
    \cup (IF d = "delete"
          THEN {[cache |-> DeleteKey(cache, k), ret |-> Null, read |-> RowState(k), fault |-> 0],
                [cache |-> cache, ret |-> Null, read |-> RowState(k), fault |-> 1]}
          ELSE {[cache |-> cache, ret |-> IF d = "value" THEN Val(RowOf(cache, k).value) ELSE Null,
                 read |-> RowState(k), fault |-> 0]})

\* where a path goes when its own key gave nothing
AfterMiss(s) ==
    CASE s \in {"disasters", "socialMedia"} -> "search.read"
      [] s \in {"weather", "emergencyAlerts", "resources"} -> "fetch"
      [] s = "reports" -> "write"

\* GET /api/realtime?disaster_id=...
StartRequest(c, disasterId) ==
    /\ c = started + 1
    /\ started' = c
    /\ calls' = calls @@ (c :> NewCall("request", disasterId, 0))
    /\ out' = NoOut
    /\ UNCHANGED <<now, clockSteps, cache, faults, last>>
    /\ UNCHANGED directVars
    /\ UNCHANGED appVars

\* the interval timer fires: the callback starts an aggregation, whatever
\* earlier callbacks are still waiting for theirs
C9_MutantTimerTick(c) ==
    /\ c = started + 1
    /\ started' = c
    /\ now' = now + PollIntervalMs
    /\ calls' = IF NoCallInFlight THEN calls @@ (c :> NewCall("poll", "", c)) ELSE calls
    /\ out' = NoOut
    /\ UNCHANGED <<clockSteps, cache, faults, last>>
    /\ UNCHANGED directVars
    /\ UNCHANGED appVars
TimerTick(c) ==
    /\ c = started + 1
    /\ started' = c
    /\ now' = now + PollIntervalMs
    /\ calls' = [d \in DOMAIN calls \cup {c} |->
                   IF d = c THEN [NewCall("poll", "", c) EXCEPT !.overlapped = ~NoCallInFlight]
                   ELSE [calls[d] EXCEPT !.overlapped = TRUE]]
    /\ out' = NoOut
    /\ UNCHANGED <<clockSteps, cache, faults, last>>
    /\ UNCHANGED directVars
    /\ UNCHANGED appVars

\* getRealTimeX, the read of its own key: const cached = await
\* getCachedData(cacheKey); if (cached) return cached
ReadOwn(c, s) ==
    /\ Active(c) /\ calls[c].pc[s] = "read"
    /\ \E r \in ReadOutcomes(CacheKey(s, calls[c].filter)) :
         LET hit == ~r.ret.isNull
             note == [calls[c].note[s] EXCEPT !.read = r.read, !.cached = r.ret.value]
         IN  /\ faults + r.fault <= MaxFaults
             /\ faults' = faults + r.fault
             /\ cache' = r.cache
             /\ calls' = Advance(c, s, IF hit THEN "done" ELSE AfterMiss(s), <<>>,
                                 IF hit THEN r.ret.value ELSE <<>>, note)
    /\ PathFrame

\* searchDisasterPosts, lines 56-63, called by getDisastersFromBluesky and by
\* getRealTimeSocialMedia: the read of the search key
ReadSearch(c, s) ==
    /\ Active(c) /\ s \in {"disasters", "socialMedia"} /\ calls[c].pc[s] = "search.read"
    /\ \E r \in ReadOutcomes(BlueskySearchKey) :
         LET hit == ~r.ret.isNull
             posts == r.ret.value
             got == IF s = "disasters" THEN BlueskyDisasters(posts) ELSE posts
             note == calls[c].note[s]
         IN  /\ faults + r.fault <= MaxFaults
             /\ faults' = faults + r.fault
             /\ cache' = r.cache
             /\ calls' = Advance(c, s,
                                 IF ~hit THEN "search.fetch"
                                 ELSE IF s = "disasters" THEN "weather.read" ELSE "official.read",
                                 calls[c].acc[s] \o got, <<>>, note)
    /\ PathFrame

\* searchDisasterPosts, lines 65-117: login and search; the posts are cached
\* and returned, and the fixture posts are returned when the login, the
\* search or the cache write fails
SearchPosts(c, s) ==
    /\ Active(c) /\ s \in {"disasters", "socialMedia"} /\ calls[c].pc[s] = "search.fetch"
    /\ \E up \in {"ok", "login fails", "search fails"}, written \in BOOLEAN :
         LET limit == IF s = "disasters" THEN DisastersSearchLimit ELSE SocialSearchLimit
             n == (IF up = "ok" THEN 0 ELSE 1) + (IF written THEN 0 ELSE 1)
             posts == IF up = "ok" /\ written THEN SearchResponse(limit) ELSE MockPosts(now, limit)
             got == IF s = "disasters" THEN BlueskyDisasters(posts) ELSE posts
             note == [calls[c].note[s] EXCEPT
                        !.fetched = @ \cup (IF up = "login fails" THEN {"bluesky.login"}
                                            ELSE {"bluesky.login", "bluesky.search"}),
                        !.failed = CASE up = "ok" -> @
                                     [] up = "login fails" -> @ \cup {"bluesky.login"}
                                     [] up = "search fails" -> @ \cup {"bluesky.search"},
                        !.nestedWriteFailed = @ \/ ~written]
         IN  /\ up # "ok" => written
             /\ faults + n <= MaxFaults
             /\ faults' = faults + n
             /\ cache' = IF up = "ok" /\ written
                         THEN Upsert(cache, BlueskySearchKey, posts, ExpiresAt(now, BlueskyTtl))
                         ELSE cache
             /\ calls' = Advance(c, s, IF s = "disasters" THEN "weather.read" ELSE "official.read",
                                 calls[c].acc[s] \o got, <<>>, note)
    /\ PathFrame

\* getOfficialUpdates, lines 125-131, called by getRealTimeSocialMedia: the
\* read of the official key
ReadOfficial(c) ==
    /\ Active(c) /\ calls[c].pc["socialMedia"] = "official.read"
    /\ \E r \in ReadOutcomes(BlueskyOfficialKey) :
         LET hit == ~r.ret.isNull
             note == calls[c].note["socialMedia"]
         IN  /\ faults + r.fault <= MaxFaults
             /\ faults' = faults + r.fault
             /\ cache' = r.cache
             /\ calls' = Advance(c, "socialMedia", IF hit THEN "write" ELSE "official.fetch",
                                 calls[c].acc["socialMedia"] \o r.ret.value, <<>>, note)
    /\ PathFrame

\* getOfficialUpdates, lines 133-193: login, then the feed of each official
\* account (a failing feed is skipped); the posts are cached and the first
\* limit of them returned; the fixture posts are returned when the login or
\* the cache write fails
OfficialUpdates(c) ==
    /\ Active(c) /\ calls[c].pc["socialMedia"] = "official.fetch"
    /\ \E up \in {"ok", "login fails", "feeds fail"}, written \in BOOLEAN :
         LET n == (IF up = "ok" THEN 0 ELSE 1) + (IF written THEN 0 ELSE 1)
             posts == IF up = "ok" THEN ToPosts(OfficialFeed) ELSE <<>>
             got == IF up # "login fails" /\ written THEN Take(posts, OfficialLimit)
                    ELSE MockPosts(now, OfficialLimit)
             note == [calls[c].note["socialMedia"] EXCEPT
                        !.fetched = @ \cup (IF up = "login fails" THEN {"bluesky.login"}
                                            ELSE {"bluesky.login", "bluesky.feed"}),
                        !.failed = CASE up = "ok" -> @
                                     [] up = "login fails" -> @ \cup {"bluesky.login"}
                                     [] up = "feeds fail" -> @ \cup {"bluesky.feed"},
                        !.nestedWriteFailed = @ \/ ~written]
         IN  /\ up = "login fails" => written
             /\ faults + n <= MaxFaults
             /\ faults' = faults + n
             /\ cache' = IF up # "login fails" /\ written
                         THEN Upsert(cache, BlueskyOfficialKey, posts, ExpiresAt(now, BlueskyTtl))
                         ELSE cache
             /\ calls' = Advance(c, "socialMedia", "write",
                                 calls[c].acc["socialMedia"] \o got, <<>>, note)
    /\ PathFrame

\* getDisastersFromWeatherAlerts: getRealTimeWeather(), the read of
\* realtime_weather:all (lines 175-181)
ReadNestedWeather(c) ==
    /\ Active(c) /\ calls[c].pc["disasters"] = "weather.read"
    /\ \E r \in ReadOutcomes(CacheKey("weather", "")) :
         LET hit == ~r.ret.isNull
             note == calls[c].note["disasters"]
         IN  /\ faults + r.fault <= MaxFaults
             /\ faults' = faults + r.fault
             /\ cache' = r.cache
             /\ calls' = Advance(c, "disasters", IF hit THEN "write" ELSE "weather.fetch",
                                 calls[c].acc["disasters"] \o WeatherDisasters(r.ret.value),
                                 <<>>, note)
    /\ PathFrame

\* getRealTimeWeather, lines 183-216, for the weather list (s = "weather") or
\* inside the disasters path: the alerts of the weather API, [] when the
\* request fails; the list is cached, and [] is returned when the write fails
FetchWeather(c, s) ==
    /\ Active(c)
    /\ \/ s = "weather" /\ calls[c].pc[s] = "fetch"
       \/ s = "disasters" /\ calls[c].pc[s] = "weather.fetch"
    /\ \E up \in BOOLEAN, written \in BOOLEAN :
         LET n == (IF up THEN 0 ELSE 1) + (IF written THEN 0 ELSE 1)
             k == CacheKey("weather", IF s = "weather" THEN calls[c].filter ELSE "")
             weatherData == IF up THEN WeatherAlerts ELSE <<>>
             got == IF written THEN weatherData ELSE <<>>
             note == [calls[c].note[s] EXCEPT
                        !.fetched = @ \cup {"weather.gov"},
                        !.failed = IF up THEN @ ELSE @ \cup {"weather.gov"},
                        !.writeFailed = @ \/ (s = "weather" /\ ~written),
                        !.nestedWriteFailed = @ \/ (s = "disasters" /\ ~written)]
         IN  /\ faults + n <= MaxFaults
             /\ faults' = faults + n
             /\ cache' = IF written
                         THEN Upsert(cache, k, weatherData, ExpiresAt(now, WeatherTtl))
                         ELSE cache
             /\ calls' = IF s = "weather"
                         THEN Advance(c, s, "done", <<>>, got, note)
                         ELSE Advance(c, s, "write", calls[c].acc[s] \o WeatherDisasters(got),
                                      <<>>, note)
    /\ PathFrame

\* getRealTimeEmergencyAlerts, lines 232-268
FetchEmergency(c) ==
    /\ Active(c) /\ calls[c].pc["emergencyAlerts"] = "fetch"
    /\ \E up \in BOOLEAN, written \in BOOLEAN :
         LET n == (IF up THEN 0 ELSE 1) + (IF written THEN 0 ELSE 1)
             alerts == IF up THEN FemaDeclarations ELSE <<>>
             note == [calls[c].note["emergencyAlerts"] EXCEPT
                        !.fetched = @ \cup {"fema.gov"},
                        !.failed = IF up THEN @ ELSE @ \cup {"fema.gov"},
                        !.writeFailed = ~written]
         IN  /\ faults + n <= MaxFaults
             /\ faults' = faults + n
             /\ cache' = IF written
                         THEN Upsert(cache, CacheKey("emergencyAlerts", calls[c].filter), alerts,
                                     ExpiresAt(now, EmergencyTtl))
                         ELSE cache
             /\ calls' = Advance(c, "emergencyAlerts", "done", <<>>,
                                 IF written THEN alerts ELSE <<>>, note)
    /\ PathFrame

\* getRealTimeResources, lines 284-327
FetchResources(c) ==
    /\ Active(c) /\ calls[c].pc["resources"] = "fetch"
    /\ \E up \in BOOLEAN, written \in BOOLEAN :
         LET n == (IF up THEN 0 ELSE 1) + (IF written THEN 0 ELSE 1)
             resources == IF up THEN ShelterResources(RedCrossShelters, calls[c].filter) ELSE <<>>
             note == [calls[c].note["resources"] EXCEPT
                        !.fetched = @ \cup {"redcross.org"},
                        !.failed = IF up THEN @ ELSE @ \cup {"redcross.org"},
                        !.writeFailed = ~written]
         IN  /\ faults + n <= MaxFaults
             /\ faults' = faults + n
             /\ cache' = IF written
                         THEN Upsert(cache, CacheKey("resources", calls[c].filter), resources,
                                     ExpiresAt(now, ResourcesTtl))
                         ELSE cache
             /\ calls' = Advance(c, "resources", "done", <<>>,
                                 IF written THEN resources ELSE <<>>, note)
    /\ PathFrame

\* getRealTimeDisasters, lines 107-118, getRealTimeSocialMedia, lines 156-167,
\* and getRealTimeReports, lines 345-354: filter what was gathered, cache it
\* and return it; [] is returned when the write fails
StoreFiltered(c, s) ==
    /\ Active(c) /\ s \in {"disasters", "socialMedia", "reports"} /\ calls[c].pc[s] = "write"
    /\ \E written \in BOOLEAN :
         LET n == IF written THEN 0 ELSE 1
             filtered == Filtered(s, calls[c].acc[s], calls[c].filter)
             note == [calls[c].note[s] EXCEPT !.writeFailed = ~written]
         IN  /\ faults + n <= MaxFaults
             /\ faults' = faults + n
             /\ cache' = IF written
                         THEN Upsert(cache, CacheKey(s, calls[c].filter), filtered,
                                     ExpiresAt(now, TtlSeconds(s)))
                         ELSE cache
             /\ calls' = Advance(c, s, "done", <<>>, IF written THEN filtered ELSE <<>>, note)
    /\ PathFrame

C30_MutantSettled(c) ==
    /\ Active(c)
    /\ \A s \in Sources : calls[c].pc[s] = "done" /\ calls[c].note[s].failed = {}
Settled(c) == Active(c) /\ \A s \in Sources : calls[c].pc[s] # "read" /\ calls[c].pc[s] = "done"

\* GET /api/realtime: the six paths have settled and the snapshot is sent
Respond(c) ==
    /\ Settled(c) /\ calls[c].kind = "request"
    /\ out' = [kind |-> "response", filter |-> calls[c].filter,
               data |-> Snapshot(calls[c]), note |-> calls[c].note]
    /\ calls' = Drop(calls, c)
    /\ UNCHANGED <<now, clockSteps, cache, started, faults, last>>
    /\ UNCHANGED directVars
    /\ UNCHANGED appVars

\* startRealTimePolling, lines 462-488: the six paths have settled; one
\* realtime_update with the snapshot to every socket, then the scoped events
Broadcast(c) ==
    /\ Settled(c) /\ calls[c].kind = "poll"
    /\ LET data == Snapshot(calls[c]) IN
       /\ out' = [kind |-> "poll", filter |-> calls[c].filter, tick |-> calls[c].tick,
                  overlapped |-> calls[c].overlapped,
                  data |-> data, note |-> calls[c].note,
                  scoped |-> ScopedEvents(data, data["disasters"]),
                  prev |-> last]
       /\ last' = [tick |-> calls[c].tick,
                   failed |-> {s \in Sources : calls[c].note[s].failed # {}}]
    /\ calls' = Drop(calls, c)
    /\ UNCHANGED <<now, clockSteps, cache, started, faults>>
    /\ UNCHANGED directVars
    /\ UNCHANGED appVars

\* the steps of the paths of the calls in flight
PathSteps ==
    \/ \E c \in AggIds, s \in Sources : InOrder(c, s) /\ ReadOwn(c, s)
    \/ \E c \in AggIds, s \in Sources : InOrder(c, s) /\ ReadSearch(c, s)
    \/ \E c \in AggIds, s \in Sources : InOrder(c, s) /\ SearchPosts(c, s)
    \/ \E c \in AggIds : InOrder(c, "socialMedia") /\ ReadOfficial(c)
    \/ \E c \in AggIds : InOrder(c, "socialMedia") /\ OfficialUpdates(c)
    \/ \E c \in AggIds : InOrder(c, "disasters") /\ ReadNestedWeather(c)
    \/ \E c \in AggIds, s \in Sources : InOrder(c, s) /\ FetchWeather(c, s)
    \/ \E c \in AggIds : InOrder(c, "emergencyAlerts") /\ FetchEmergency(c)
    \/ \E c \in AggIds : InOrder(c, "resources") /\ FetchResources(c)
    \/ \E c \in AggIds, s \in Sources : InOrder(c, s) /\ StoreFiltered(c, s)

\* requests to GET /api/realtime, one after the other
RequestNext ==
    \/ \E c \in AggIds, f \in RequestFilters : NoCallInFlight /\ StartRequest(c, f)
    \/ PathSteps
    \/ \E c \in AggIds : Respond(c)
    \/ \E d \in RequestGaps : NoCallInFlight /\ Elapse(d)

SpecRequests == CacheInit /\ [][RequestNext]_vars

\* the polling loop
PollNext ==
    \/ \E c \in AggIds : TimerTick(c)
    \/ PathSteps
    \/ \E c \in AggIds : Broadcast(c)

SpecPoll == CacheInit /\ [][PollNext]_vars

\* the polling loop when every call to the database and to an upstream API
\* returns in the end, so that a path that can take a step takes one, and a
\* callback whose aggregation has resolved runs on
SpecPollLive ==
    SpecPoll /\ WF_vars(PathSteps) /\ WF_vars(\E c \in AggIds : Broadcast(c))

-----------------------------------------------------------------------------
(* The disasters routes.  The cache table lives in the hosted database with  *)
(* the other tables: in one step the database is reachable for every call   *)
(* of the step, or for none.                                                 *)

\* what a step of a route leaves alone
RouteFrame ==
    /\ UNCHANGED <<callsMade, now, clockSteps, ops, cur, nullKind, answer>>
    /\ UNCHANGED aggVars

\* the bodies of the requests: "" stands for a field that is empty or missing
Titles == {"", "Test Flood"}
Descriptions == {"", "River overflow near Main St"}
LocationNames == {"", "Elm St"}
\* what the model answers the extraction prompt with, trimmed and in lower
\* case where it tells that there is no location; "throws" is a failed call
AiReplies == {"throws", "", "null", "no location found", "Main St"}
\* the replies extractLocation takes for no location (line 41)
NoLocationReplies == {"", "null", "no location found"}
\* what the geocoder answers
GeocoderReplies == {"found", "nothing"}

\* extractLocation: setCachedData(cacheKey, geocodingResult, 3600)
ExtractionTtl == 3600
\* geocode: setCachedData(cacheKey, result, 86400)
GeocodingTtl == 86400
\* GET /api/disasters: limit = 10
DisastersPageLimit == 10

\* the keys are built from the base64 of the text, which is one to one
ExtractionKey(description) == "location_extraction:base64(" \o description \o ")"
GeocodingKey(locationName) == "geocoding:base64(" \o locationName \o ")"

\* getCachedData(k) at time t in table c, in one step: the table it leaves
\* and the value it resolves with
CachedRead(c, k, t, up) ==
    LET d == GetDecision(up, RowOf(c, k), t) IN
    [cache |-> IF d = "delete" THEN DeleteKey(c, k) ELSE c,
     hit |-> d = "value",
     value |-> IF d = "value" THEN c[k].value ELSE <<>>]

\* geminiService.extractLocation(description): it throws when the model call
\* or the cache write throws; name is "" where it resolves with null
ExtractLocation(c, t, description, up, ai) ==
    LET r == CachedRead(c, ExtractionKey(description), t, up) IN
    IF r.hit THEN [threw |-> FALSE, name |-> r.value.location_name, cache |-> r.cache]
    ELSE IF ai = "throws" THEN [threw |-> TRUE, name |-> "", cache |-> r.cache]
    ELSE IF ai \in NoLocationReplies THEN [threw |-> FALSE, name |-> "", cache |-> r.cache]
    ELSE IF ~up THEN [threw |-> TRUE, name |-> "", cache |-> r.cache]
    ELSE [threw |-> FALSE, name |-> ai,
          cache |-> Upsert(r.cache, ExtractionKey(description), [location_name |-> ai],
                           ExpiresAt(t, ExtractionTtl))]

\* geocodingService.geocode(locationName): it never throws; it resolves with
\* null when the geocoder finds nothing and when the cache write throws
Geocode(c, t, locationName, up, geo) ==
    LET r == CachedRead(c, GeocodingKey(locationName), t, up) IN
    IF r.hit THEN [found |-> TRUE, cache |-> r.cache]
    ELSE IF geo = "nothing" \/ ~up THEN [found |-> FALSE, cache |-> r.cache]
    ELSE [found |-> TRUE,
          cache |-> Upsert(r.cache, GeocodingKey(locationName), [location_name |-> locationName],
                           ExpiresAt(t, GeocodingTtl))]

\* POST /api/disasters, line 89: !title || !description
C12_MutantMissingRequired(title, description) == title = ""
MissingRequired(title, description) == title = "" \/ description = ""

\* the answer of a route: the status, the envelope, the events emitted, and
\* whether the database answered any call of the request
Reply(route, input, status, success, data, emitted, up) ==
    [kind |-> "reply", route |-> route, input |-> input, status |-> status,
     success |-> success, data |-> data, emitted |-> emitted, up |-> up]

\* the id the database gives a new row, and the id createDisaster gives
DbId(n) == "db-" \o ToString(n)
MockId(t) == "disaster-" \o ToString(t)

\* POST /api/disasters.  Its awaits read and write no row that another
\* request changes, save the cache rows that every writer writes alike, so the
\* handler is one step.
PostDisaster(title, description, location_name, up, ai, geo) ==
    LET input == [title |-> title, description |-> description, location_name |-> location_name,
                  ai |-> ai]
        route == "POST /api/disasters"
        ex == IF location_name = "" THEN ExtractLocation(cache, now, description, up, ai)
              ELSE [threw |-> FALSE, name |-> "", cache |-> cache]
        finalLocationName == IF location_name # "" THEN location_name ELSE ex.name
        g == IF finalLocationName # "" THEN Geocode(ex.cache, now, finalLocationName, up, geo)
             ELSE [found |-> FALSE, cache |-> ex.cache]
        trail == <<AuditEntry("create", now, <<>>)>>
        name == IF finalLocationName # "" THEN finalLocationName ELSE "Unknown Location"
        row == Disaster(DbId(reqsMade + 1), title, description, name, g.found, trail)
        mock == Disaster(MockId(now), title, description, name, TRUE, trail)
    IN
    /\ reqsMade < MaxRequests
    /\ reqsMade' = reqsMade + 1
    /\ IF MissingRequired(title, description)
       THEN /\ reply' = Reply(route, input, 400, FALSE, <<>>, <<>>, up)
            /\ UNCHANGED <<cache, disastersTable, mockDisasters>>
       ELSE IF ex.threw
       THEN /\ reply' = Reply(route, input, 500, FALSE, <<>>, <<>>, up)
            /\ cache' = ex.cache
            /\ UNCHANGED <<disastersTable, mockDisasters>>
       ELSE /\ cache' = g.cache
            /\ IF up
               THEN /\ disastersTable' = disastersTable @@ (row.id :> row)
                    /\ reply' = Reply(route, input, 201, TRUE, row, <<[event |-> "disaster_updated", data |-> row]>>, up)
                    /\ UNCHANGED mockDisasters
               ELSE /\ mockDisasters' = Append(mockDisasters, mock)
                    /\ reply' = Reply(route, input, 201, TRUE, mock, <<[event |-> "disaster_updated", data |-> mock]>>, up)
                    /\ UNCHANGED disastersTable
    /\ UNCHANGED <<resourcesTable, mockResources, reportsTable, mockReports, reqs, rooms, sockets, client, proc>>
    /\ RouteFrame

\* the rows of the table, the newest first
RowsNewestFirst(n) ==
    LET RECURSIVE From(_)
        From(i) == IF i = 0 THEN <<>>
                   ELSE (IF DbId(i) \in DOMAIN disastersTable THEN <<disastersTable[DbId(i)]>> ELSE <<>>)
                        \o From(i - 1)
    IN From(n)

\* GET /api/disasters with the default page and limit: the rows of the table,
\* or, when the query fails, the fixture array
ListDisasters(up) ==
    /\ reqsMade < MaxRequests
    /\ reqsMade' = reqsMade + 1
    /\ reply' = Reply("GET /api/disasters", <<>>, 200, TRUE,
                      IF up THEN Take(RowsNewestFirst(reqsMade), DisastersPageLimit)
                      ELSE Take(mockDisasters, DisastersPageLimit),
                      <<>>, up)
    /\ UNCHANGED <<cache, disastersTable, mockDisasters, resourcesTable, mockResources, reportsTable, mockReports, reqs, rooms, sockets, client, proc>>
    /\ RouteFrame

\* the bodies of the updates
Updates == {[title |-> "Flood, day 2", description |-> "", location_name |-> ""],
            [title |-> "", description |-> "River overflow near Main St", location_name |-> ""]}
\* the ids the updates are addressed to
PutTargets == {DbId(n) : n \in 1..MaxRequests} \cup {"disaster-1"}

\* PUT /api/disasters/:id, lines 348-359: the handler reads the row
PutSelect(r, id, updates, up) ==
    /\ reqsMade < MaxRequests /\ r = reqsMade + 1
    /\ reqsMade' = reqsMade + 1
    /\ IF up /\ id \in DOMAIN disastersTable
       THEN /\ reqs' = reqs @@ (r :> [id |-> id, updates |-> updates,
                                      existingDisaster |-> disastersTable[id]])
            /\ reply' = NoReply
       ELSE /\ reply' = Reply("PUT /api/disasters/:id", [id |-> id, updates |-> updates],
                              404, FALSE, <<>>, <<>>, up)
            /\ UNCHANGED reqs
    /\ UNCHANGED <<cache, disastersTable, mockDisasters, resourcesTable, mockResources, reportsTable, mockReports, rooms, sockets, client, proc>>
    /\ RouteFrame

\* PUT /api/disasters/:id, lines 361-427: from the row it has read the
\* handler builds the new values and the new audit trail, and writes them
PutUpdate(r, up, ai, geo) ==
    /\ r \in DOMAIN reqs
    /\ LET q == reqs[r]
           route == "PUT /api/disasters/:id"
           input == [id |-> q.id, updates |-> q.updates]
           extracts == q.updates.location_name = "" /\ q.updates.description # ""
           ex == IF extracts THEN ExtractLocation(cache, now, q.updates.description, up, ai)
                 ELSE [threw |-> FALSE, name |-> "", cache |-> cache]
           finalLocationName ==
               IF q.updates.location_name # "" THEN q.updates.location_name
               ELSE IF extracts /\ ex.name # "" THEN ex.name
               ELSE q.existingDisaster.location_name
           relocates == (q.updates.location_name # "" \/ q.updates.description # "")
                        /\ finalLocationName # q.existingDisaster.location_name
           g == IF relocates THEN Geocode(ex.cache, now, finalLocationName, up, geo)
                ELSE [found |-> FALSE, cache |-> ex.cache]
           auditTrail == Append(q.existingDisaster.audit_trail, AuditEntry("update", now, q.updates))
           old == disastersTable[q.id]
           updatedDisaster ==
               Disaster(q.id,
                        IF q.updates.title # "" THEN q.updates.title ELSE old.title,
                        IF q.updates.description # "" THEN q.updates.description ELSE old.description,
                        IF g.found THEN finalLocationName ELSE old.location_name,
                        IF g.found THEN TRUE ELSE old.located,
                        auditTrail)
       IN  IF ex.threw
           THEN /\ reply' = Reply(route, input, 500, FALSE, <<>>, <<>>, TRUE)
                /\ cache' = ex.cache
                /\ UNCHANGED disastersTable
           ELSE /\ cache' = g.cache
                /\ IF up
                   THEN /\ disastersTable' = [disastersTable EXCEPT ![q.id] = updatedDisaster]
                        /\ reply' = Reply(route, input, 200, TRUE, updatedDisaster,
                                          <<[event |-> "disaster_updated", data |-> updatedDisaster]>>, TRUE)
                   ELSE /\ reply' = Reply(route, input, 500, FALSE, <<>>, <<>>, TRUE)
                        /\ UNCHANGED disastersTable
    /\ reqs' = Drop(reqs, r)
    /\ UNCHANGED <<mockDisasters, resourcesTable, mockResources, reportsTable, mockReports, reqsMade, rooms, sockets, client, proc>>
    /\ RouteFrame

\* time passes between the requests
Tick(d) ==
    /\ clockSteps < MaxClockSteps
    /\ now' = now + d
    /\ clockSteps' = clockSteps + 1
    /\ reply' = NoReply
    /\ UNCHANGED <<callsMade, cache, ops, cur, nullKind, answer>>
    /\ UNCHANGED aggVars
    /\ UNCHANGED <<disastersTable, mockDisasters, resourcesTable, mockResources, reportsTable, mockReports, reqs, reqsMade, rooms, sockets, client, proc>>

\* requests to the disasters routes
DisastersNext ==
    \/ \E title \in Titles, description \in Descriptions, location_name \in LocationNames,
          up \in BOOLEAN, ai \in AiReplies, geo \in GeocoderReplies :
          PostDisaster(title, description, location_name, up, ai, geo)
    \/ \E up \in BOOLEAN : ListDisasters(up)
    \/ \E r \in 1..MaxRequests, id \in PutTargets, updates \in Updates, up \in BOOLEAN :
          PutSelect(r, id, updates, up)
    \/ \E r \in 1..MaxRequests, up \in BOOLEAN, ai \in AiReplies, geo \in GeocoderReplies :
          PutUpdate(r, up, ai, geo)
    \/ \E d \in ClockDeltas : Tick(d)

SpecDisasters == CacheInit /\ [][DisastersNext]_vars

-----------------------------------------------------------------------------
(* Claims about the cache service *)

\* C3 (as amended): after a set(key, v, ttl) that completed undisturbed, a get
\* of the key whose read of the table succeeds returns v up to and including
\* the instant of expiry (set's call time + ttl) and null after it; a get
\* whose read fails returns null whatever the expiry; and once a get has found
\* the entry expired or gone, no later get returns v.
C3_GetFollowsExpiry ==
    (answer.kind = "get" /\ answer.clean) =>
        LET w == cur[answer.key] IN
        /\ (answer.ok /\ answer.t <= w.expires_at) => answer.ret = Val(w.value)
        /\ (answer.ok /\ answer.t > w.expires_at) => answer.ret = Null
        /\ ~answer.ok => answer.ret = Null
        /\ answer.ret # Null => answer.afterNull # "expired"

\* C3 witness: a get answers v at the very instant of expiry, after an
\* earlier get of the same write had answered null because its read failed
C3_Witness ==
    /\ answer.kind = "get" /\ answer.clean /\ answer.ok
    /\ answer.t = cur[answer.key].expires_at
    /\ answer.ret = Val(cur[answer.key].value)
    /\ answer.afterNull = "failed"

\* C3 as stated: every get returns v while ttl has not elapsed and null once
\* it has elapsed, and after a null no get returns v again
C3_Original ==
    (answer.kind = "get" /\ answer.clean) =>
        LET w == cur[answer.key] IN
        /\ answer.t < w.expires_at => answer.ret = Val(w.value)
        /\ answer.t >= w.expires_at => answer.ret = Null
        /\ answer.ret # Null => answer.afterNull = "none"

\* C4: a clearExpired whose bulk delete is applied removes exactly the rows
\* whose expiry is before the time of the call, whatever sets were applied
\* in between; one whose delete fails removes nothing
C4_ClearExpiredExact ==
    [][\A i \in DOMAIN ops :
         (ops[i].kind = "clearExpired" /\ i \notin DOMAIN ops') =>
            \A k \in Keys :
               RowOf(cache', k) = IF answer'.ok /\ RowOf(cache, k).present
                                     /\ RowOf(cache, k).expires_at < ops[i].t
                                  THEN NoRow ELSE RowOf(cache, k)]_vars

\* C4 witness: a clearExpired during which a set was applied has removed an
\* expired row and left a row that was not expired at the call
C4_Witness ==
    /\ answer.kind = "clearExpired" /\ answer.ok /\ answer.overlap
    /\ answer.removed # {}
    /\ \E k \in DOMAIN cache : cache[k].expires_at >= answer.t

\* C10: the row of a key is the value and the expiry of the upsert applied
\* last, both from the same set call
C10_LastWriterWins ==
    /\ \A k \in DOMAIN cache :
          (cache[k].value = cur[k].value /\ cache[k].expires_at = cur[k].expires_at)
    /\ (answer.kind = "set" /\ answer.ok) => RowOf(cache, answer.key) = Row(answer.value, answer.t)

\* C10 witness: of two concurrent sets of one key with different values and
\* expiries, the second to be applied has completed and the row is its own
C10_Witness ==
    /\ answer.kind = "set" /\ answer.ok /\ answer.peer = "differs"
    /\ RowOf(cache, answer.key) = Row(answer.value, answer.t)

-----------------------------------------------------------------------------
(* Claims about the aggregator *)

\* the upstream API the list of a source is fetched from; for the social
\* list, the one its path requests last (the search result may also come from
\* the cache of the adapter)
ApiOf(s) ==
    CASE s = "socialMedia" -> "bluesky.feed"
      [] s = "weather" -> "weather.gov"
      [] s = "emergencyAlerts" -> "fema.gov"
      [] s = "resources" -> "redcross.org"

\* the list of a source when its upstream requests and cache calls succeed
FreshList(s, disasterId) ==
    CASE s = "socialMedia" ->
           FilterPosts(SearchResponse(SocialSearchLimit) \o Take(ToPosts(OfficialFeed), OfficialLimit),
                       disasterId)
      [] s = "weather" -> WeatherAlerts
      [] s = "emergencyAlerts" -> FemaDeclarations
      [] s = "resources" -> ShelterResources(RedCrossShelters, disasterId)

\* the path found nothing usable under its key, fetched its list from
\* upstream with no request failing, and its cache writes went through
FetchedCleanly(n, s) ==
    /\ n.read \in {"absent", "expired"}
    /\ ApiOf(s) \in n.fetched /\ n.failed = {}
    /\ ~n.writeFailed /\ ~n.nestedWriteFailed

Delivered == out.kind \in {"response", "poll"}

\* C1: in the snapshot getRealTimeDisasterData resolves with, the list of
\* every source (social, weather, emergency declarations, shelters) whose
\* upstream fetch succeeded is exactly its fetched data, whatever upstream
\* fetches of other sources failed in the same call; and the list of a weather,
\* emergency or shelter source whose upstream fetch failed is empty
C1_PartialFailureIsolation ==
    Delivered =>
        \A s \in {"socialMedia", "weather", "emergencyAlerts", "resources"} :
            /\ FetchedCleanly(out.note[s], s) => out.data[s] = FreshList(s, out.filter)
            /\ (s # "socialMedia" /\ out.note[s].failed # {}) => out.data[s] = <<>>

\* C1 witness: the weather fetch failed; the weather list is empty and the
\* other three lists are their fetched, non-empty data
C1_Witness ==
    /\ out.kind = "response"
    /\ out.note["weather"].failed = {"weather.gov"} /\ out.data["weather"] = <<>>
    /\ \A s \in {"socialMedia", "emergencyAlerts", "resources"} :
          /\ FetchedCleanly(out.note[s], s)
          /\ out.data[s] = FreshList(s, out.filter) /\ out.data[s] # <<>>

\* C2 as stated: when the upstream fetch of a source failed in the poll of one
\* tick, the poll of the next tick (each running alone) requests the source
\* afresh, and its snapshot holds the data of the source if that request
\* succeeds
C2_NextTickFetchesAfresh ==
    (out.kind = "poll" /\ ~out.overlapped /\ out.prev.tick = out.tick - 1) =>
        \A s \in out.prev.failed \cap {"socialMedia", "weather", "emergencyAlerts", "resources"} :
            /\ out.note[s].fetched # {}
            /\ FetchedCleanly(out.note[s], s) => out.data[s] = FreshList(s, "")

\* the correlated ids of the entries of a list
RECURSIVE IdsOf(_), DisasterIdsOf(_)
IdsOf(list) == IF list = <<>> THEN {} ELSE {Head(list).id} \cup IdsOf(Tail(list))
DisasterIdsOf(list) == IF list = <<>> THEN {} ELSE {Head(list).disaster_id} \cup DisasterIdsOf(Tail(list))

\* C5 as stated: the answer to a request with a disaster id holds no entry
\* correlated to another disaster id, whether it came from upstream or from
\* the cache
C5_FilteredByRequestedId ==
    (out.kind = "response" /\ out.filter # "") =>
        /\ IdsOf(out.data["disasters"]) \subseteq {out.filter}
        /\ DisasterIdsOf(out.data["socialMedia"]) \subseteq {out.filter}
        /\ DisasterIdsOf(out.data["resources"]) \subseteq {out.filter}

\* C6 (as amended): a poll, all six paths of which have run, pushes one
\* realtime_update with the snapshot and, for each disaster of the snapshot in
\* order, one
\* disaster_realtime_update to the room disaster-<id>, whose payload holds the
\* posts and the resources of the snapshot whose disaster_id is that id, and
\* the whole weather and emergencyAlerts lists of the snapshot
C6_ScopedUpdates ==
    out.kind = "poll" =>
        /\ \A s \in Sources : out.note[s].read # "none"
        /\ Len(out.scoped) = Len(out.data["disasters"])
        /\ \A i \in DOMAIN out.scoped :
              LET e == out.scoped[i]
                  id == out.data["disasters"][i].id
              IN  /\ e.disasterId = id
                  /\ e.room = "disaster-" \o id
                  /\ e.data.socialMedia = FilterPosts(out.data["socialMedia"], id)
                  /\ e.data.resources = FilterPosts(out.data["resources"], id)
                  /\ e.data.weather = out.data["weather"]
                  /\ e.data.emergencyAlerts = out.data["emergencyAlerts"]

\* C6 witness: a poll has pushed scoped updates for several disasters, each
\* with the whole non-empty weather list
C6_Witness ==
    /\ out.kind = "poll"
    /\ Len(out.scoped) > 1
    /\ \A i \in DOMAIN out.scoped : out.scoped[i].data.weather = WeatherAlerts

\* C6 as stated: the payload of a scoped update holds only data correlated to
\* its disaster: posts and resources with its id, and of the weather and
\* emergency alerts (which carry no disaster_id) none but the alert the
\* disaster was derived from
C6_OnlyCorrelatedData ==
    out.kind = "poll" =>
        \A i \in DOMAIN out.scoped :
            LET e == out.scoped[i] IN
            /\ DisasterIdsOf(e.data.socialMedia) \subseteq {e.disasterId}
            /\ DisasterIdsOf(e.data.resources) \subseteq {e.disasterId}
            /\ \A a \in IdsOf(e.data.weather) : "weather-" \o a = e.disasterId
            /\ e.data.emergencyAlerts = <<>>

C9_TickStartsPoll ==
    [][started' # started =>
          /\ started' \in DOMAIN calls' /\ calls'[started'].kind = "poll"
          /\ DOMAIN calls \subseteq DOMAIN calls']_vars

\* C9 witness: two polls are in flight, the earlier past the interval
C9_Witness ==
    \E c, d \in DOMAIN calls :
        /\ c < d /\ calls[c].kind = "poll" /\ calls[d].kind = "poll"
        /\ now >= calls[c].tick * PollIntervalMs + PollIntervalMs

-----------------------------------------------------------------------------
(* The verification and classification adapter *)

\* what a method has just returned to its caller, or thrown at it
Returned(method, input, threw, value) ==
    [kind |-> "returned", method |-> method, input |-> input, threw |-> threw, value |-> value]

\* an ImageVerificationResult
Verification(is_authentic, confidence, analysis, detected_manipulations) ==
    [is_authentic |-> is_authentic, confidence |-> confidence, analysis |-> analysis,
     detected_manipulations |-> detected_manipulations]

\* what the vision model answers: it throws, or it gives a text; of the text,
\* whether /\{[\s\S]*\}/ matches and JSON.parse takes the match ("parses", with
\* the object parsed), throws on it ("malformed"), or nothing matches
\* ("none"), and which of the words the fallback parsing looks for it has
VisionReply(outcome, text, object, parsed, words) ==
    [outcome |-> outcome, text |-> text, object |-> object, parsed |-> parsed, words |-> words]
VisionReplies ==
    {VisionReply("throws", "", "none", <<>>, {}),
     VisionReply("text", "{\"is_authentic\": false, \"confidence\": 90}", "parses",
                 [is_authentic |-> FALSE, confidence |-> 90], {}),
     VisionReply("text", "{is_authentic: yes}", "malformed", <<>>, {}),
     VisionReply("text", "This looks fake", "none", <<>>, {"fake"}),
     VisionReply("text", "Real, high confidence", "none", <<>>, {"high"}),
     VisionReply("text", "Possibly manipulated, medium confidence", "none", <<>>, {"manipulated", "medium"}),
     VisionReply("text", "Cannot tell", "none", <<>>, {})}

\* how the download of the image ends
ImageFetches == {"ok", "not ok", "throws"}
ImageUrls == {"https://example.com/flood-image-1.jpg"}

\* verifyImage, lines 159-164: the result on any error
C14_MutantImageFallback == Verification(FALSE, 30, "Unable to verify image due to technical error", <<>>)
ImageFallback == Verification(TRUE, 30, "Unable to verify image due to technical error", <<>>)

\* verifyImage, lines 137-142: the result when JSON.parse throws
ParseFailed(v) == Verification(TRUE, 50, v.text, <<>>)

\* verifyImage, lines 128-133: the fallback parsing of a text with no object
FallbackParsing(v) ==
    Verification("fake" \notin v.words /\ "manipulated" \notin v.words,
                 IF "high" \in v.words THEN 80 ELSE IF "medium" \in v.words THEN 60 ELSE 40,
                 v.text,
                 IF "manipulation" \in v.words THEN <<"Potential editing detected">> ELSE <<>>)

\* verifyImage: setCachedData(cacheKey, verificationResult, 3600)
VerificationTtl == 3600
\* classifySocialMediaPriority: setCachedData(cacheKey, finalPriority, 1800)
PriorityTtl == 1800

VerificationKey(imageUrl) == "image_verification:base64(" \o imageUrl \o ")"
PriorityKey(content) == "priority_classification:base64(" \o content \o ")"

\* verifyImage, the body of its try block (lines 73-154)
VerifyImageTry(c, t, imageUrl, up, fetched, v) ==
    LET r == CachedRead(c, VerificationKey(imageUrl), t, up)
        verificationResult ==
            CASE v.object = "parses" -> v.parsed
              [] v.object = "malformed" -> ParseFailed(v)
              [] OTHER -> FallbackParsing(v)
    IN  IF r.hit THEN [threw |-> FALSE, value |-> r.value, cache |-> r.cache, hit |-> TRUE]
        ELSE IF fetched # "ok" \/ v.outcome = "throws" \/ ~up
        THEN [threw |-> TRUE, value |-> <<>>, cache |-> r.cache, hit |-> FALSE]
        ELSE [threw |-> FALSE, value |-> verificationResult, hit |-> FALSE,
              cache |-> Upsert(r.cache, VerificationKey(imageUrl), verificationResult,
                               ExpiresAt(t, VerificationTtl))]

\* verifyImage (lines 71-166): the catch turns a throw into the fallback result
VerifyImage(c, t, imageUrl, up, fetched, v) ==
    LET a == VerifyImageTry(c, t, imageUrl, up, fetched, v) IN
    IF a.threw THEN [a EXCEPT !.threw = FALSE, !.value = ImageFallback] ELSE a

\* what the text model answers to the priority prompt ("throws": the call
\* fails), and response.text().trim().toLowerCase() of each answer
PriorityReplies == {"throws", "URGENT", " High ", "low", "MEDIUM", "Critical", ""}
TrimLower(text) ==
    CASE text = "URGENT" -> "urgent"
      [] text = " High " -> "high"
      [] text = "MEDIUM" -> "medium"
      [] text = "Critical" -> "critical"
      [] OTHER -> text
\* line 200
ValidPriorities == {"low", "medium", "high", "urgent"}
PostContents == {"Need help at Main St"}

\* classifySocialMediaPriority, the body of its try block (lines 173-208)
ClassifyTry(c, t, content, up, reply_) ==
    LET r == CachedRead(c, PriorityKey(content), t, up)
        priority == TrimLower(reply_)
        finalPriority == IF priority \in ValidPriorities THEN priority ELSE "medium"
    IN  IF r.hit THEN [threw |-> FALSE, value |-> r.value, cache |-> r.cache, hit |-> TRUE]
        ELSE IF reply_ = "throws" \/ ~up
        THEN [threw |-> TRUE, value |-> "", cache |-> r.cache, hit |-> FALSE]
        ELSE [threw |-> FALSE, value |-> finalPriority, hit |-> FALSE,
              cache |-> Upsert(r.cache, PriorityKey(content), finalPriority,
                               ExpiresAt(t, PriorityTtl))]

\* classifySocialMediaPriority (lines 171-213): the catch returns 'medium'
ClassifySocialMediaPriority(c, t, content, up, reply_) ==
    LET a == ClassifyTry(c, t, content, up, reply_) IN
    IF a.threw THEN [a EXCEPT !.threw = FALSE, !.value = "medium"] ELSE a

\* what a call of the adapter leaves alone
AdapterFrame ==
    /\ UNCHANGED <<disastersTable, mockDisasters, resourcesTable, mockResources, reportsTable, mockReports, reqs, reqsMade,
                   rooms, sockets, client, proc>>
    /\ RouteFrame

\* a caller calls verifyImage
VerifyImageCall(imageUrl, up, fetched, v) ==
    LET a == VerifyImage(cache, now, imageUrl, up, fetched, v) IN
    /\ cache' = a.cache
    /\ reply' = Returned("verifyImage",
                         [hit |-> a.hit, up |-> up, fetched |-> fetched, reply |-> v],
                         a.threw, a.value)
    /\ AdapterFrame

\* a caller calls classifySocialMediaPriority
ClassifyCall(content, up, reply_) ==
    LET a == ClassifySocialMediaPriority(cache, now, content, up, reply_) IN
    /\ cache' = a.cache
    /\ reply' = Returned("classifySocialMediaPriority",
                         [hit |-> a.hit, up |-> up, reply |-> reply_],
                         a.threw, a.value)
    /\ AdapterFrame

\* the time between two calls: a second, or long enough for a cached
\* priority to expire
AdapterGaps == {MsPerSecond, PriorityTtl * MsPerSecond + 1}

AdapterNext ==
    \/ \E imageUrl \in ImageUrls, up \in BOOLEAN, fetched \in ImageFetches, v \in VisionReplies :
          VerifyImageCall(imageUrl, up, fetched, v)
    \/ \E content \in PostContents, up \in BOOLEAN, reply_ \in PriorityReplies :
          ClassifyCall(content, up, reply_)
    \/ \E d \in AdapterGaps : Tick(d)

SpecAdapters == CacheInit /\ [][AdapterNext]_vars

-----------------------------------------------------------------------------
(* The process: the hourly sweep of the cache and the handlers of the       *)
(* process-level events                                                      *)

\* setInterval(..., 60 * 60 * 1000)
SweepIntervalMs == 60 * 60 * 1000

IsRunning == proc.status = "running"

Logged(p, line) == [p EXCEPT !.log = Append(@, line)]

\* process.exit(code)
C18_MutantExited(p, code) == p
Exited(p, code) == [p EXCEPT !.status = "exited", !.exitCode = code]

\* process.on('uncaughtException') and process.on('unhandledRejection'),
\* index.ts lines 182-191: log the event, then exit with code 1
OnFatal(p, event) ==
    Exited(Logged(p, IF event = "uncaughtException" THEN "Uncaught Exception"
                     ELSE "Unhandled Rejection"), 1)

\* the process-level events
FatalEvents == {"uncaughtException", "unhandledRejection"}

\* how the promise of the sweep's clearExpired() settles: fulfilled, or
\* rejected into the .catch of the timer callback, which logs
C15_MutantSweepSettled(p, ok) ==
    IF ok THEN Logged(p, "Expired cache entries cleared")
    ELSE OnFatal(Logged(p, "Error clearing expired cache"), "unhandledRejection")
SweepSettled(p, ok) ==
    IF ok THEN Logged(p, "Expired cache entries cleared")
    ELSE Logged(Logged(p, "Error clearing expired cache"), "Scheduled cache cleanup failed")

\* what a step of the process leaves alone
ProcessFrame ==
    /\ reply' = NoReply
    /\ UNCHANGED <<disastersTable, mockDisasters, resourcesTable, mockResources, reportsTable, mockReports, reqs, reqsMade,
                   rooms, sockets, client>>
    /\ UNCHANGED aggVars

\* the sweep timer fires, an hour after it was set or last fired: the callback
\* calls clearExpired, which sends the bulk delete with the time of the call
\* as its threshold
SweepTick(i) ==
    /\ IsRunning
    /\ NextCall(i)
    /\ callsMade' = callsMade + 1
    /\ now' = now + SweepIntervalMs
    /\ ops' = ops @@ (i :> [IdleOp EXCEPT !.kind = "clearExpired", !.pc = "sweep", !.t = now'])
    /\ proc' = [proc EXCEPT !.sweeps = @ + 1]
    /\ answer' = NoAnswer
    /\ UNCHANGED <<clockSteps, cache, cur, nullKind>>
    /\ ProcessFrame

\* the database applies the bulk delete of a sweep, or answers with an error:
\* clearExpired logs and rethrows, and the .catch of the callback logs
SweepExec(i) ==
    /\ IsRunning
    /\ i \in DOMAIN ops /\ ops[i].kind = "clearExpired" /\ ops[i].pc = "sweep"
    /\ \E ok \in BOOLEAN :
          /\ cache' = IF ok THEN DeleteExpired(cache, ops[i].t) ELSE cache
          /\ answer' = [NoAnswer EXCEPT !.kind = "sweep", !.t = ops[i].t, !.ok = ok,
                                        !.overlap = ops[i].overlap,
                                        !.removed = DOMAIN cache \ DOMAIN cache']
          /\ proc' = SweepSettled(proc, ok)
    /\ ops' = Drop(ops, i)
    /\ UNCHANGED <<callsMade, now, clockSteps, cur, nullKind>>
    /\ ProcessFrame

\* an exception reaches the top of the event loop, or a promise is rejected
\* with no handler
Fatal(event) ==
    /\ IsRunning
    /\ proc' = OnFatal(proc, event)
    /\ answer' = [NoAnswer EXCEPT !.kind = event]
    /\ UNCHANGED <<callsMade, now, clockSteps, cache, ops, cur, nullKind>>
    /\ ProcessFrame

\* the process: callers that write the cache, the sweep, and the fatal events
ProcessNext ==
    \/ \E i \in OpIds, k \in OpKeys, v \in OpValues, ttl \in OpTtls : IsRunning /\ SetCall(i, k, v, ttl)
    \/ \E i \in OpIds : IsRunning /\ SetUpsert(i)
    \/ \E i \in OpIds : SweepTick(i)
    \/ \E i \in OpIds : SweepExec(i)
    \/ \E event \in FatalEvents : Fatal(event)

SpecProcess == CacheInit /\ [][ProcessNext]_vars

-----------------------------------------------------------------------------
(* The social adapter called with limits of the caller's choice              *)

\* the limits the callers pass
SearchLimits == {1, 2}

\* getOfficialUpdates, lines 135-140: the default accounts
OfficialHandles == <<"fema.bsky.social", "redcross.bsky.social", "weather.gov.bsky.social",
                     "emergency.bsky.social">>

\* Math.ceil(limit / userHandles.length)
CeilDiv(a, b) == (a + b - 1) \div b

\* getAuthorFeed({actor, limit}): the account has posted once
AuthorFeed(handle, limit) == Take(<<Entry("at://" \o handle \o "/post/1", "general")>>, limit)

\* for (const handle of userHandles.slice(0, 5)): the posts of the feeds
RECURSIVE Feeds(_, _)
Feeds(handles, perHandle) ==
    IF handles = <<>> THEN <<>>
    ELSE AuthorFeed(Head(handles), perHandle) \o Feeds(Tail(handles), perHandle)

\* what a call of the adapter has resolved with
Posts(method, limit, from, posts) ==
    [kind |-> "posts", method |-> method, limit |-> limit, from |-> from, posts |-> posts]

\* searchDisasterPosts(keywords, limit) with the keywords of the aggregator
SearchDisasterPostsCall(limit, db, net) ==
    LET r == CachedRead(cache, BlueskySearchKey, now, db)
        posts == SearchResponse(limit)
    IN
    /\ reqsMade < MaxRequests
    /\ reqsMade' = reqsMade + 1
    /\ IF r.hit
       THEN /\ cache' = r.cache
            /\ reply' = Posts("searchDisasterPosts", limit, "cache", r.value)
       ELSE IF net # "ok" \/ ~db
       THEN /\ cache' = r.cache
            /\ reply' = Posts("searchDisasterPosts", limit, "fixture", MockPosts(now, limit))
       ELSE /\ cache' = Upsert(r.cache, BlueskySearchKey, posts, ExpiresAt(now, BlueskyTtl))
            /\ reply' = Posts("searchDisasterPosts", limit, "upstream", posts)
    /\ UNCHANGED <<disastersTable, mockDisasters, resourcesTable, mockResources, reportsTable, mockReports, reqs, rooms,
                   sockets, client, proc>>
    /\ RouteFrame

\* getOfficialUpdates([], limit)
GetOfficialUpdatesCall(limit, db, net) ==
    LET r == CachedRead(cache, BlueskyOfficialKey, now, db)
        handles == Take(OfficialHandles, 5)
        posts == IF net = "ok" THEN Feeds(handles, CeilDiv(limit, Len(OfficialHandles))) ELSE <<>>
    IN
    /\ reqsMade < MaxRequests
    /\ reqsMade' = reqsMade + 1
    /\ IF r.hit
       THEN /\ cache' = r.cache
            /\ reply' = Posts("getOfficialUpdates", limit, "cache", r.value)
       ELSE IF net = "login fails" \/ ~db
       THEN /\ cache' = r.cache
            /\ reply' = Posts("getOfficialUpdates", limit, "fixture", MockPosts(now, limit))
       ELSE /\ cache' = Upsert(r.cache, BlueskyOfficialKey, posts, ExpiresAt(now, BlueskyTtl))
            /\ reply' = Posts("getOfficialUpdates", limit, "upstream", Take(posts, limit))
    /\ UNCHANGED <<disastersTable, mockDisasters, resourcesTable, mockResources, reportsTable, mockReports, reqs, rooms,
                   sockets, client, proc>>
    /\ RouteFrame

\* the time between two calls: a second, or more than the entries live
BlueskyGaps == {MsPerSecond, BlueskyTtl * MsPerSecond + 1}

BlueskyNext ==
    \/ \E limit \in SearchLimits, db \in BOOLEAN, net \in {"ok", "login fails", "search fails"} :
          SearchDisasterPostsCall(limit, db, net)
    \/ \E limit \in SearchLimits, db \in BOOLEAN, net \in {"ok", "login fails", "feeds fail"} :
          GetOfficialUpdatesCall(limit, db, net)
    \/ \E d \in BlueskyGaps : Tick(d)

SpecBluesky == CacheInit /\ [][BlueskyNext]_vars

-----------------------------------------------------------------------------
(* The resources routes                                                      *)

\* the bodies of POST /api/resources: "" stands for a field that is empty or
\* missing
ResourceBodies ==
    {[disaster_id |-> "disaster-1", name |-> "Red Cross Emergency Shelter",
      location_name |-> "Lower East Side, NYC", type |-> "shelter"],
     [disaster_id |-> "disaster-2", name |-> "LA County Fire Station",
      location_name |-> "Los Angeles, CA", type |-> "medical"],
     [disaster_id |-> "disaster-1", name |-> "", location_name |-> "Lower East Side, NYC",
      type |-> "shelter"]}

\* the point the geocoder finds for a location name
PointOf(location_name) ==
    CASE location_name = "Lower East Side, NYC" -> "40.7142,-73.9897"
      [] location_name = "Los Angeles, CA" -> "34.0522,-118.2437"

\* the query strings of GET /api/resources: "" stands for a missing parameter
Lats == {"", "40.7128"}
Lngs == {"", "-74.0060"}
Radii == {"", "2000", "5000"}
DisasterFilters == {"", "disaster-1"}
TypeFilters == {"", "shelter"}
AvailableFilters == {"", "false"}
Pages == {1, 2}

\* radius = 10000
DefaultRadius == 10000
\* limit = 20
ResourcesPageLimit == 20

\* `${point},${radius}`: the meters the database reads from the filter
RadiusMeters(radius) ==
    CASE radius = "" -> DefaultRadius
      [] radius = "2000" -> 2000
      [] radius = "5000" -> 5000

\* the meters from POINT(-74.0060 40.7128) to a stored point, on the sphere
Meters(location) ==
    CASE location = "40.7142,-73.9897" -> 1383
      [] location = "40.7421,-73.9731" -> 4278
      [] location = "34.0522,-118.2437" -> 3935752
      [] location = "0,0" -> 8667080

\* .filter('location', 'st_dwithin', `${point},${radius}`): a row whose
\* location is null is not within any distance
C19_MutantStDWithin(rows, radius) == rows
StDWithin(rows, radius) ==
    SelectSeq(rows, LAMBDA r : r.location # "none" /\ Meters(r.location) <= RadiusMeters(radius))

\* .eq(column, value) where the parameter is given
EqDisaster(rows, disaster_id) ==
    IF disaster_id = "" THEN rows ELSE SelectSeq(rows, LAMBDA r : r.disaster_id = disaster_id)
EqType(rows, type) ==
    IF type = "" THEN rows ELSE SelectSeq(rows, LAMBDA r : r.type = type)
EqAvailable(rows, available) ==
    IF available = "" THEN rows ELSE SelectSeq(rows, LAMBDA r : r.available = (available = "true"))

\* .order('created_at', { ascending: false })
RECURSIVE NewestFirst(_)
NewestFirst(rows) == IF rows = <<>> THEN <<>> ELSE NewestFirst(Tail(rows)) \o <<Head(rows)>>

\* .range(offset, offset + limit - 1) and slice(start, end)
PageOf(rows, page, limit) ==
    LET start == (page - 1) * limit
        end == IF start + limit < Len(rows) THEN start + limit ELSE Len(rows)
    IN  SubSeq(rows, start + 1, end)

\* POST /api/resources, line 20
MissingResourceField(body) ==
    body.disaster_id = "" \/ body.name = "" \/ body.location_name = "" \/ body.type = ""

\* POST /api/resources: the insert, or createResource of the fixture store
\* when the insert fails
PostResource(body, up, geo) ==
    LET route == "POST /api/resources"
        g == Geocode(cache, now, body.location_name, up, geo)
        row == Resource(DbId(reqsMade + 1), body.disaster_id, body.name, body.location_name,
                        IF g.found THEN PointOf(body.location_name) ELSE "none", body.type)
        mock == Resource("resource-" \o ToString(now), body.disaster_id, body.name,
                         body.location_name,
                         IF g.found THEN PointOf(body.location_name) ELSE "0,0", body.type)
    IN
    /\ reqsMade < MaxRequests
    /\ reqsMade' = reqsMade + 1
    /\ IF MissingResourceField(body)
       THEN /\ reply' = Reply(route, body, 400, FALSE, <<>>, <<>>, up)
            /\ UNCHANGED <<cache, resourcesTable, mockResources>>
       ELSE /\ cache' = g.cache
            /\ IF up
               THEN /\ resourcesTable' = Append(resourcesTable, row)
                    /\ reply' = Reply(route, body, 201, TRUE, row,
                                      <<[event |-> "resources_updated", room |-> "disaster-" \o body.disaster_id,
                                         data |-> <<row>>]>>, up)
                    /\ UNCHANGED mockResources
               ELSE /\ mockResources' = Append(mockResources, mock)
                    /\ reply' = Reply(route, body, 201, TRUE, mock,
                                      <<[event |-> "resources_updated", room |-> "disaster-" \o body.disaster_id,
                                         data |-> <<mock>>]>>, up)
                    /\ UNCHANGED resourcesTable
    /\ UNCHANGED <<disastersTable, mockDisasters, reportsTable, mockReports, reqs, rooms, sockets, client, proc>>
    /\ RouteFrame

\* GET /api/resources with the default limit: the rows the query selects, or,
\* when the query fails, getResources(page, limit, disaster_id) of the fixture
\* store
GetResources(q, up) ==
    LET filtered == EqAvailable(EqType(EqDisaster(resourcesTable, q.disaster_id), q.type), q.available)
        selected == IF q.lat # "" /\ q.lng # "" THEN StDWithin(filtered, q.radius) ELSE filtered
    IN
    /\ reqsMade < MaxRequests
    /\ reqsMade' = reqsMade + 1
    /\ reply' = Reply("GET /api/resources", q, 200, TRUE,
                      IF up THEN PageOf(NewestFirst(selected), q.page, ResourcesPageLimit)
                      ELSE PageOf(EqDisaster(mockResources, q.disaster_id), q.page, ResourcesPageLimit),
                      <<>>, up)
    /\ UNCHANGED <<cache, disastersTable, mockDisasters, resourcesTable, mockResources, reportsTable, mockReports, reqs, rooms,
                   sockets, client, proc>>
    /\ RouteFrame

ResourceQueries ==
    [lat : Lats, lng : Lngs, radius : Radii, disaster_id : DisasterFilters, type : TypeFilters,
     available : AvailableFilters, page : Pages]

ResourcesNext ==
    \/ \E body \in ResourceBodies, up \in BOOLEAN, geo \in GeocoderReplies : PostResource(body, up, geo)
    \/ \E q \in ResourceQueries, up \in BOOLEAN : GetResources(q, up)

SpecResources == CacheInit /\ [][ResourcesNext]_vars

-----------------------------------------------------------------------------
(* The reports routes                                                        *)

\* the bodies of POST /api/reports: with and without an image, and one with
\* no content
ReportBodies ==
    {[disaster_id |-> "disaster-1", content |-> "Need help at Main St", image_url |-> u] : u \in ImageUrls \cup {""}}
    \cup {[disaster_id |-> "disaster-1", content |-> "", image_url |-> ""]}

\* what the vision model answers about the image of a report: it throws, it
\* gives an object that parses, or it gives a text with no object
ReportVisionReplies ==
    {v \in VisionReplies : v.outcome = "throws" \/ v.object = "parses" \/ v.words = {"high"}}

\* the x-user-id header: absent, or a user's id
UserHeaders == {"", "citizen1"}

\* POST /api/reports, line 76
MissingReportField(body) == body.disaster_id = "" \/ body.content = ""

\* POST /api/reports, line 91
VerificationStatus(verificationResult) ==
    IF verificationResult.is_authentic THEN "verified" ELSE "rejected"

\* POST /api/reports: the verification of the image when the body has one,
\* then the insert, or createReport of the fixture store when the insert fails
PostReport(body, header, up, fetched, v) ==
    LET route == "POST /api/reports"
        user_id == IF header # "" THEN header ELSE "anonymous"
        a == IF body.image_url # "" THEN VerifyImage(cache, now, body.image_url, up, fetched, v)
             ELSE [threw |-> FALSE, value |-> <<>>, cache |-> cache, hit |-> FALSE]
        verification_status ==
            IF body.image_url # "" /\ ~a.threw THEN VerificationStatus(a.value) ELSE "pending"
        input == [body |-> body, fetched |-> fetched, vision |-> v, hit |-> a.hit]
        row == Report(DbId(reqsMade + 1), body.disaster_id, user_id, body.content, body.image_url,
                      verification_status)
        mock == Report("report-" \o ToString(now), body.disaster_id, user_id, body.content,
                       body.image_url, verification_status)
    IN
    /\ reqsMade < MaxRequests
    /\ reqsMade' = reqsMade + 1
    /\ IF MissingReportField(body)
       THEN /\ reply' = Reply(route, input, 400, FALSE, <<>>, <<>>, up)
            /\ UNCHANGED <<cache, reportsTable, mockReports>>
       ELSE /\ cache' = a.cache
            /\ IF up
               THEN /\ reportsTable' = Append(reportsTable, row)
                    /\ reply' = Reply(route, input, 201, TRUE, row,
                                      <<[event |-> "report_created", room |-> "disaster-" \o body.disaster_id,
                                         data |-> row]>>, up)
                    /\ UNCHANGED mockReports
               ELSE /\ mockReports' = Append(mockReports, mock)
                    /\ reply' = Reply(route, input, 201, TRUE, mock,
                                      <<[event |-> "report_created", room |-> "disaster-" \o body.disaster_id,
                                         data |-> mock]>>, up)
                    /\ UNCHANGED reportsTable
    /\ UNCHANGED <<disastersTable, mockDisasters, resourcesTable, mockResources, reqs, rooms, sockets, client, proc>>
    /\ RouteFrame

ReportsNext ==
    \/ \E body \in ReportBodies, header \in UserHeaders, up \in BOOLEAN, fetched \in ImageFetches,
          v \in ReportVisionReplies : PostReport(body, header, up, fetched, v)
    \/ \E d \in ClockDeltas : Tick(d)

SpecReports == CacheInit /\ [][ReportsNext]_vars

-----------------------------------------------------------------------------
(* The in-memory fallback store                                              *)

\* the titles, contents and names of the records the callers create
NewTitles == {"Test Flood", "Test Fire"}
NewContents == {"Need help at Main St", "Road closed at Elm St"}
NewNames == {"Shelter A", "Shelter B"}

\* the ids getDisasterById is asked for: a fixture's, and those of the
\* records created at the instants of the run
LookupIds == {"disaster-1"} \cup {MockId(n * MsPerSecond) : n \in 0..MaxClockSteps}

\* what a call of the store leaves alone
StoreFrame ==
    /\ UNCHANGED <<cache, disastersTable, resourcesTable, reportsTable, reqs, rooms, sockets, client, proc>>
    /\ RouteFrame

\* createDisaster (lines 156-165)
CreateDisaster(title) ==
    LET newDisaster == Disaster(MockId(now), title, "River overflow near Main St", "Unknown Location",
                                TRUE, <<>>)
    IN
    /\ reqsMade < MaxRequests
    /\ reqsMade' = reqsMade + 1
    /\ mockDisasters' = Append(mockDisasters, newDisaster)
    /\ reply' = Returned("createDisaster", title, FALSE, newDisaster)
    /\ UNCHANGED <<mockReports, mockResources>>
    /\ StoreFrame

\* createReport (lines 184-192)
CreateReport(content) ==
    LET newReport == Report("report-" \o ToString(now), "disaster-1", "anonymous", content, "", "pending")
    IN
    /\ reqsMade < MaxRequests
    /\ reqsMade' = reqsMade + 1
    /\ mockReports' = Append(mockReports, newReport)
    /\ reply' = Returned("createReport", content, FALSE, newReport)
    /\ UNCHANGED <<mockDisasters, mockResources>>
    /\ StoreFrame

\* createResource (lines 211-219)
CreateResource(name) ==
    LET newResource == Resource("resource-" \o ToString(now), "disaster-1", name, "Elm St", "0,0", "shelter")
    IN
    /\ reqsMade < MaxRequests
    /\ reqsMade' = reqsMade + 1
    /\ mockResources' = Append(mockResources, newResource)
    /\ reply' = Returned("createResource", name, FALSE, newResource)
    /\ UNCHANGED <<mockDisasters, mockReports>>
    /\ StoreFrame

\* mockDisasters.find(d => d.id === id) || null
Find(disasters, id) ==
    IF \E n \in DOMAIN disasters : disasters[n].id = id
    THEN disasters[CHOOSE n \in DOMAIN disasters :
                       /\ disasters[n].id = id
                       /\ \A m \in 1..(n - 1) : disasters[m].id # id]
    ELSE "null"

\* getDisasterById (lines 152-154)
GetDisasterById(id) ==
    /\ reqsMade < MaxRequests
    /\ reqsMade' = reqsMade + 1
    /\ reply' = Returned("getDisasterById", id, FALSE, Find(mockDisasters, id))
    /\ UNCHANGED <<mockDisasters, mockReports, mockResources>>
    /\ StoreFrame

StoreNext ==
    \/ \E title \in NewTitles : CreateDisaster(title)
    \/ \E content \in NewContents : CreateReport(content)
    \/ \E name \in NewNames : CreateResource(name)
    \/ \E id \in LookupIds : GetDisasterById(id)
    \/ \E d \in ClockDeltas : Tick(d)

SpecStore == CacheInit /\ [][StoreNext]_vars

-----------------------------------------------------------------------------
(* The socket service of the frontend                                        *)

\* the sockets io() makes in a run, and the callbacks on() keeps for an event
MaxSockets == 3
MaxListeners == 2

\* what a step of the page leaves alone
ClientFrame ==
    /\ UNCHANGED <<cache, disastersTable, mockDisasters, resourcesTable, mockResources, reportsTable,
                   mockReports, reqs, reqsMade, rooms, sockets, proc>>
    /\ RouteFrame

\* what a call of the service, or the delivery of an event, has just done
Called(method, input, value) == [kind |-> "client", method |-> method, input |-> input, value |-> value]

\* this.socket?.connected
SocketConnected(c) == c.socket # 0 /\ c.socket \in DOMAIN c.open /\ c.open[c.socket]

\* connect() (lines 14-36): it returns at once when the socket of the field
\* is connected; otherwise io() makes a socket, the field is overwritten with
\* it and the handlers of setupEventListeners are registered on it
ClientConnect ==
    /\ \/ SocketConnected(client)
       \/ client.made < MaxSockets
    /\ client' = IF SocketConnected(client) THEN client
                 ELSE [client EXCEPT !.socket = client.made + 1,
                                     !.made = client.made + 1,
                                     !.open = @ @@ ((client.made + 1) :> FALSE)]
    /\ reply' = Called("connect", client.socket, client'.socket)
    /\ ClientFrame

\* the connection of a socket is established: its 'connect' event
Established(s) ==
    /\ s \in DOMAIN client.open /\ ~client.open[s]
    /\ client' = [client EXCEPT !.open[s] = TRUE]
    /\ reply' = Called("on connect", s, TRUE)
    /\ ClientFrame

\* disconnect() (lines 38-43): the socket of the field is closed and the
\* field is set to null
ClientDisconnect ==
    /\ client' = IF client.socket = 0 THEN client
                 ELSE [client EXCEPT !.socket = 0,
                                     !.open = [s \in DOMAIN client.open \ {client.socket} |-> client.open[s]]]
    /\ reply' = Called("disconnect", client.socket, 0)
    /\ ClientFrame

\* on(event, callback) (lines 112-118)
On(event, callback) ==
    /\ Len(client.listeners[event]) < MaxListeners
    /\ client' = [client EXCEPT !.listeners[event] = Append(@, callback)]
    /\ reply' = Called("on", [event |-> event, callback |-> callback], 0)
    /\ ClientFrame

\* callbacks.splice(callbacks.indexOf(callback), 1)
Splice(callbacks, callback) ==
    IF \E n \in DOMAIN callbacks : callbacks[n] = callback
    THEN LET index == CHOOSE n \in DOMAIN callbacks :
                          callbacks[n] = callback /\ \A m \in 1..(n - 1) : callbacks[m] # callback
         IN  SubSeq(callbacks, 1, index - 1) \o SubSeq(callbacks, index + 1, Len(callbacks))
    ELSE callbacks

\* off(event, callback) (lines 121-135)
Off(event, callback) ==
    /\ client' = [client EXCEPT !.listeners[event] = Splice(@, callback)]
    /\ reply' = Called("off", [event |-> event, callback |-> callback], 0)
    /\ ClientFrame

\* how many elements of a sequence are x
Occurrences(seq, x) == Cardinality({n \in DOMAIN seq : seq[n] = x})

\* the server emits an event to every socket (io.emit): each connected socket
\* of the page receives it, and the handler setupEventListeners registered on
\* that socket calls notifyListeners (lines 137-148), which calls every
\* callback registered for the event; value counts the calls of each callback
ServerEvent(event) ==
    LET receivers == {s \in DOMAIN client.open : client.open[s]} IN
    /\ receivers # {}
    /\ reply' = Called("notifyListeners", event,
                       [cb \in Callbacks |->
                           Cardinality(receivers) * Occurrences(client.listeners[event], cb)])
    /\ UNCHANGED client
    /\ ClientFrame

ClientNext ==
    \/ ClientConnect
    \/ \E s \in 1..MaxSockets : Established(s)
    \/ ClientDisconnect
    \/ \E event \in ClientEvents, callback \in Callbacks : On(event, callback)
    \/ \E event \in ClientEvents, callback \in Callbacks : Off(event, callback)
    \/ \E event \in ClientEvents : ServerEvent(event)

SpecClient == CacheInit /\ [][ClientNext]_vars

-----------------------------------------------------------------------------
(* The rooms of the socket server                                            *)

\* the client messages (connect, join-disaster, leave-disaster, disconnect)
\* the server receives in a run
MaxMessages == 4

SocketIds == {"s1", "s2"}

\* the disaster ids clients and routes name: a fixture's and a stored row's
RoomDisasterIds == {"disaster-1", DbId(1)}

\* `disaster-${disasterId}`
RoomName(id) == "disaster-" \o id

\* the events the routes and the poller emit to the room of one disaster
RoomScopedEvents == {"report_created", "report_verified", "report_deleted", "resources_updated",
                     "social_media_updated", "disaster_realtime_update"}

\* the events emitted with io.emit
BroadcastEvents == {"disaster_updated", "realtime_update"}

\* socket.join(room): the adapter creates the room when it has to
JoinRoom(rs, room, s) ==
    IF room \in DOMAIN rs THEN [rs EXCEPT ![room] = @ \cup {s}] ELSE rs @@ (room :> {s})

\* socket.leave(room): the adapter deletes a room that becomes empty
LeaveRoom(rs, room, s) ==
    IF room \notin DOMAIN rs THEN rs
    ELSE IF rs[room] \ {s} = {} THEN Drop(rs, room)
    ELSE [rs EXCEPT ![room] = @ \ {s}]

\* on disconnect the socket leaves every room it is in
LeaveAll(rs, s) ==
    LET left == {room \in DOMAIN rs : rs[room] \ {s} # {}}
    IN  [room \in left |-> rs[room] \ {s}]

\* io.to(room).emit: the sockets an emit to a room is written to
C16_MutantTo(rs, room) == UNION {rs[r] : r \in DOMAIN rs}
To(rs, room) == IF room \in DOMAIN rs THEN rs[room] ELSE {}

Emitted(event, id, to) == [kind |-> "emit", event |-> event, id |-> id, to |-> to]

RoomsFrame ==
    /\ UNCHANGED <<callsMade, now, clockSteps, cache, ops, cur, nullKind, answer>>
    /\ UNCHANGED aggVars
    /\ UNCHANGED <<disastersTable, mockDisasters, resourcesTable, mockResources, reportsTable, mockReports, reqs, client, proc>>

\* io.on('connection'): sockets holds, for each connected socket, the messages
\* the server has received on it
Connect(s) ==
    /\ reqsMade < MaxMessages
    /\ s \notin DOMAIN sockets
    /\ sockets' = sockets @@ (s :> <<>>)
    /\ reqsMade' = reqsMade + 1
    /\ reply' = NoReply
    /\ UNCHANGED rooms
    /\ RoomsFrame

\* socket.on('join-disaster')
JoinDisaster(s, id) ==
    /\ reqsMade < MaxMessages
    /\ s \in DOMAIN sockets
    /\ rooms' = JoinRoom(rooms, RoomName(id), s)
    /\ sockets' = [sockets EXCEPT ![s] = Append(@, [msg |-> "join-disaster", id |-> id])]
    /\ reqsMade' = reqsMade + 1
    /\ reply' = NoReply
    /\ RoomsFrame

\* socket.on('leave-disaster')
LeaveDisaster(s, id) ==
    /\ reqsMade < MaxMessages
    /\ s \in DOMAIN sockets
    /\ rooms' = LeaveRoom(rooms, RoomName(id), s)
    /\ sockets' = [sockets EXCEPT ![s] = Append(@, [msg |-> "leave-disaster", id |-> id])]
    /\ reqsMade' = reqsMade + 1
    /\ reply' = NoReply
    /\ RoomsFrame

\* socket.on('disconnect')
Disconnect(s) ==
    /\ reqsMade < MaxMessages
    /\ s \in DOMAIN sockets
    /\ rooms' = LeaveAll(rooms, s)
    /\ sockets' = Drop(sockets, s)
    /\ reqsMade' = reqsMade + 1
    /\ reply' = NoReply
    /\ RoomsFrame

\* io.to(`disaster-${id}`).emit(event, ...) of a route or of the poller
EmitToRoom(event, id) ==
    /\ reply' = Emitted(event, id, To(rooms, RoomName(id)))
    /\ UNCHANGED <<rooms, sockets, reqsMade>>
    /\ RoomsFrame

\* io.emit(event, ...)
EmitToAll(event) ==
    /\ reply' = Emitted(event, "", DOMAIN sockets)
    /\ UNCHANGED <<rooms, sockets, reqsMade>>
    /\ RoomsFrame

RoomsNext ==
    \/ \E s \in SocketIds : Connect(s)
    \/ \E s \in SocketIds, id \in RoomDisasterIds : JoinDisaster(s, id)
    \/ \E s \in SocketIds, id \in RoomDisasterIds : LeaveDisaster(s, id)
    \/ \E s \in SocketIds : Disconnect(s)
    \/ \E event \in RoomScopedEvents, id \in RoomDisasterIds : EmitToRoom(event, id)
    \/ \E event \in BroadcastEvents : EmitToAll(event)

SpecRooms == CacheInit /\ [][RoomsNext]_vars

-----------------------------------------------------------------------------
(* Claims about the disasters routes *)

IdsIn(list) == {list[i].id : i \in DOMAIN list}

\* C11: whenever the hosted database is unreachable, a disaster create, list
\* or update request still succeeds against the in-memory fixture store and
\* returns a well-formed {success: true, data, ...} envelope.  The create has
\* a title and a description; the update is addressed to a disaster of the
\* fixture store.
C11_FallbackSucceeds ==
    (/\ reply.kind = "reply"
     /\ ~reply.up
     /\ \/ reply.route = "GET /api/disasters"
        \/ /\ reply.route = "POST /api/disasters"
           /\ ~MissingRequired(reply.input.title, reply.input.description)
        \/ /\ reply.route = "PUT /api/disasters/:id"
           /\ reply.input.id \in IdsIn(mockDisasters))
    => /\ reply.success
       /\ reply.status \in {200, 201}
       /\ reply.data # <<>>

\* C12: a POST /api/disasters whose title or description is empty or missing
\* is answered with status 400, leaves the database (the cache table
\* included) and the in-memory fallback store unchanged, and emits no
\* disaster_updated event.
C12_InvalidCreateRejected ==
    [][(/\ reply'.kind = "reply"
        /\ reply'.route = "POST /api/disasters"
        /\ reply'.input.title = "" \/ reply'.input.description = "")
       => /\ reply'.status = 400 /\ ~reply'.success
          /\ disastersTable' = disastersTable
          /\ mockDisasters' = mockDisasters
          /\ cache' = cache
          /\ reply'.emitted = <<>>]_vars

\* an invalid create has been answered after a valid one had stored a row
C12_Witness ==
    /\ reply.kind = "reply" /\ reply.route = "POST /api/disasters"
    /\ reply.input.title # "" /\ reply.input.description = ""
    /\ reply.status = 400
    /\ DOMAIN disastersTable # {}

\* C13: creating a disaster with a non-empty title and description but no
\* location_name always yields a success response whose data.location_name is
\* non-empty: the extracted name, or the literal "Unknown Location", whatever
\* the outcome of the AI, geocoder and database calls.
C13_LocationNameNeverEmpty ==
    (/\ reply.kind = "reply"
     /\ reply.route = "POST /api/disasters"
     /\ ~MissingRequired(reply.input.title, reply.input.description)
     /\ reply.input.location_name = "")
    => /\ reply.success
       /\ reply.data.location_name \in ((AiReplies \ NoLocationReplies) \ {"throws"})
                                        \cup {"Unknown Location"}

\* s is a prefix of t
IsPrefix(s, t) == Len(s) <= Len(t) /\ SubSeq(t, 1, Len(s)) = s

\* C17: the audit trail of a disaster is append-only: whatever the
\* interleaving of the requests, no step removes or overwrites an entry that
\* the stored trail already has.
C17_AuditTrailAppendOnly ==
    [][\A id \in DOMAIN disastersTable :
         id \in DOMAIN disastersTable'
         => IsPrefix(disastersTable[id].audit_trail, disastersTable'[id].audit_trail)]_vars

-----------------------------------------------------------------------------
(* Claims about the social adapter *)

\* C20: searchDisasterPosts and getOfficialUpdates never reject, and when the
\* login fails or the upstream search or feed call throws they return the
\* fixture posts: in an unfiltered answer whose socialMedia path fetched, and
\* saw one of these calls fail, the socialMedia list holds the fixture posts.
C20_FixtureOnFailure ==
    (/\ out.kind = "response" /\ out.filter = ""
     /\ out.note["socialMedia"].read \in {"absent", "expired"}
     /\ out.note["socialMedia"].failed \cap {"bluesky.login", "bluesky.search", "bluesky.feed"} # {})
    => ("mock-" \o ToString(now) \o "-1") \in IdsOf(out.data["socialMedia"])

-----------------------------------------------------------------------------
(* Claims about the verification and classification adapter *)

\* C14 (as amended): verifyImage and classifySocialMediaPriority never throw.
\* On a cache miss verifyImage returns is_authentic = true with confidence 30
\* whenever the download of the image, the model call or the cache write
\* throws, and is_authentic = true with confidence 50 when the object found
\* in the answer does not parse; classifySocialMediaPriority always returns a
\* valid priority, and returns 'medium' whenever the model call or the cache
\* write throws or the answer is not one of low, medium, high, urgent.
C14_FailsOpen ==
    reply.kind = "returned" =>
        /\ ~reply.threw
        /\ (reply.method = "verifyImage" /\ ~reply.input.hit) =>
              /\ (\/ reply.input.fetched # "ok"
                  \/ reply.input.reply.outcome = "throws"
                  \/ ~reply.input.up)
                 => reply.value.is_authentic /\ reply.value.confidence = 30
              /\ (/\ reply.input.fetched = "ok" /\ reply.input.up
                  /\ reply.input.reply.object = "malformed")
                 => reply.value.is_authentic /\ reply.value.confidence = 50
        /\ reply.method = "classifySocialMediaPriority" =>
              /\ reply.value \in {"low", "medium", "high", "urgent"}
              /\ (/\ ~reply.input.hit
                  /\ \/ reply.input.reply = "throws"
                     \/ ~reply.input.up
                     \/ reply.input.reply \in {"Critical", ""})
                 => reply.value = "medium"

\* C14 witness: the model call of verifyImage threw and the fallback result
\* was returned
C14_Witness ==
    /\ reply.kind = "returned" /\ reply.method = "verifyImage"
    /\ ~reply.input.hit /\ reply.input.fetched = "ok" /\ reply.input.up
    /\ reply.input.reply.outcome = "throws"
    /\ reply.value.is_authentic /\ reply.value.confidence = 30

\* C14 as stated: whenever the upstream call throws or its answer does not
\* parse, verifyImage returns is_authentic = true with a fixed low confidence
C14_FixedValueOnParseFailure ==
    (/\ reply.kind = "returned" /\ reply.method = "verifyImage"
     /\ ~reply.input.hit
     /\ \/ reply.input.fetched # "ok"
        \/ reply.input.reply.outcome = "throws"
        \/ reply.input.reply.object # "parses")
    => /\ ~reply.threw
       /\ reply.value.is_authentic
       /\ reply.value.confidence \in {30, 50}

-----------------------------------------------------------------------------
(* Claims about the process *)

\* C15: the hourly sweep is never fatal: every tick of the sweep timer calls
\* clearExpired; when clearExpired fails the failure is only logged, the
\* process keeps running, the cache is left as it was, and the sweep timer can
\* fire again.
C15_SweepNeverFatal ==
    /\ [][proc'.sweeps # proc.sweeps =>
            \E i \in DOMAIN ops' \ DOMAIN ops :
                ops'[i].kind = "clearExpired" /\ ops'[i].t = now']_vars
    /\ [][(answer'.kind = "sweep" /\ ~answer'.ok) =>
            /\ proc'.status = "running"
            /\ cache' = cache
            /\ Len(proc'.log) > Len(proc.log)
            /\ proc'.log[Len(proc'.log)] = "Scheduled cache cleanup failed"]_vars
    /\ []((answer.kind = "sweep" /\ ~answer.ok /\ callsMade < MaxCalls) =>
            ENABLED (\E i \in OpIds : SweepTick(i)))

\* C15 witness: a sweep has failed over a cache that holds a row, and the
\* sweep timer has fired again since
C15_Witness ==
    /\ IsRunning
    /\ proc.sweeps >= 2
    /\ \E n \in DOMAIN proc.log : proc.log[n] = "Scheduled cache cleanup failed"
    /\ DOMAIN cache # {}

\* C18: an uncaught exception or an unhandled promise rejection is logged and
\* ends the process with a non-zero exit code; once it has happened nothing
\* of the server runs any more.
C18_FailFast ==
    /\ [][answer'.kind \in FatalEvents =>
            /\ proc'.status = "exited" /\ proc'.exitCode # 0
            /\ Len(proc'.log) = Len(proc.log) + 1]_vars
    /\ [](proc.status = "exited" => ~ENABLED ProcessNext)

\* C18 witness: the process has exited on an unhandled rejection while a
\* sweep was waiting for the database
C18_Witness ==
    /\ proc.status = "exited" /\ proc.exitCode = 1
    /\ answer.kind = "unhandledRejection"
    /\ \E i \in DOMAIN ops : ops[i].pc = "sweep"

-----------------------------------------------------------------------------
(* Claims about the rooms *)

\* a connected socket's messages say it has joined the room of a disaster and
\* not left it since
JoinedNotLeft(h, id) ==
    \E n \in DOMAIN h :
        /\ h[n] = [msg |-> "join-disaster", id |-> id]
        /\ \A m \in (n + 1)..Len(h) : h[m] # [msg |-> "leave-disaster", id |-> id]

\* C16: a socket is a member of the room disaster-<id> exactly from its
\* join-disaster(<id>) message until its leave-disaster(<id>) message or its
\* disconnect, and every room-scoped event for a disaster is delivered only to
\* the sockets that are members of that disaster's room when it is emitted.
C16_RoomMembership ==
    /\ \A s \in SocketIds, id \in RoomDisasterIds :
          (RoomName(id) \in DOMAIN rooms /\ s \in rooms[RoomName(id)])
              <=> (s \in DOMAIN sockets /\ JoinedNotLeft(sockets[s], id))
    /\ (reply.kind = "emit" /\ reply.event \in RoomScopedEvents) =>
          reply.to = {s \in DOMAIN sockets : JoinedNotLeft(sockets[s], reply.id)}

\* C16 witness: an event is emitted to the room of a disaster while one socket
\* is in it and another connected socket is in the room of another disaster
C16_Witness ==
    /\ reply.kind = "emit" /\ reply.event = "report_created"
    /\ reply.to # {}
    /\ \E s \in DOMAIN sockets, id \in RoomDisasterIds :
          s \notin reply.to /\ id # reply.id /\ JoinedNotLeft(sockets[s], id)

-----------------------------------------------------------------------------
(* Claims about the resources routes *)

\* the elements of a sequence
Range(list) == {list[n] : n \in DOMAIN list}

-----------------------------------------------------------------------------
(* Claims about the cache service under interleaving *)

\* C23: the lazy delete inside get never removes a live entry: whatever the
\* interleaving of get(key) with set(key, v, ttl), a row that leaves the table
\* had expired.
C23_LazyDeleteSparesLive ==
    [][\A k \in DOMAIN cache \ DOMAIN cache' : IsExpired(cache[k].expires_at, now)]_vars

-----------------------------------------------------------------------------
(* Claims about the cache entries of the aggregator *)

\* in this step the path of source s of call c has stored its list under its
\* own key and resolved
WritesOwn(c, s) ==
    /\ c \in DOMAIN calls /\ c \in DOMAIN calls'
    /\ calls[c].pc[s] \notin {"read", "done"} /\ calls'[c].pc[s] = "done"
    /\ ~calls'[c].note[s].writeFailed

\* C22: each source result is cached under a key specific to the source and
\* the disaster filter, with the TTL of the source, which lies between 30
\* seconds and 15 minutes; a write for one (source, filter) pair never changes
\* the entry or the expiry of another pair.
C22_EntriesKeyedByPair ==
    [][\A c \in AggIds, s \in Sources :
          WritesOwn(c, s) =>
            /\ RowOf(cache', CacheKey(s, calls[c].filter)).expires_at
                  = now + TtlSeconds(s) * MsPerSecond
            /\ TtlSeconds(s) >= 30 /\ TtlSeconds(s) <= 15 * 60
            /\ \A s2 \in Sources, f2 \in RequestFilters :
                  <<s2, f2>> # <<s, calls[c].filter>> =>
                     RowOf(cache', CacheKey(s2, f2)) = RowOf(cache, CacheKey(s2, f2))]_vars

\* C24: a cache write failure does not change what a source call returns:
\* when the upstream fetch of a source succeeded and the write of its list
\* threw, the source's list in the answer is the fetched data.
C24_WriteFailureKeepsData ==
    out.kind = "response" =>
        \A s \in {"weather", "emergencyAlerts", "resources"} :
            (/\ out.note[s].fetched # {} /\ out.note[s].failed = {}
             /\ out.note[s].writeFailed)
              => out.data[s] = FreshList(s, out.filter)

-----------------------------------------------------------------------------
(* Claims about the polling loop *)

\* C25: broadcasts follow tick order: the snapshot of an earlier tick is never
\* emitted after the snapshot of a later tick.
C25_BroadcastsInTickOrder ==
    out.kind = "poll" => out.prev.tick < out.tick

\* C30: the polling loop stays live: a failure inside a tick does not end the
\* process or stop the timer, and, every external call returning in the end,
\* every tick emits its realtime_update, once.
C30_PollingStaysLive ==
    /\ \A c \in AggIds : (c \in DOMAIN calls) ~> (out.kind = "poll" /\ out.tick = c)
    /\ [][/\ out'.kind = "poll" => (out'.tick \in DOMAIN calls /\ out'.tick \notin DOMAIN calls')
          /\ \A c \in DOMAIN calls' \ DOMAIN calls : c > started]_vars
    /\ [](started < MaxAggregations => ENABLED TimerTick(started + 1))
    /\ [](proc.status = "running")

\* C30 witness: the poll of the second tick broadcasts after an upstream
\* request failed in the poll of the first
C30_Witness ==
    /\ out.kind = "poll" /\ out.tick = 2
    /\ out.prev.tick = 1 /\ out.prev.failed # {}

-----------------------------------------------------------------------------
(* Claims about the social adapter called with limits *)

\* C27: searchDisasterPosts(keywords, limit) and getOfficialUpdates(handles,
\* limit) never return more than limit posts, whether the result comes from
\* upstream, from the fixture data or from the cache, whatever calls with
\* other limits came before.
C27_NeverMoreThanLimit ==
    reply.kind = "posts" => Len(reply.posts) <= reply.limit

-----------------------------------------------------------------------------
(* Claims about the upstream requests of one aggregate call *)

\* C26: within one getRealTimeDisasterData call on a cold cache each upstream
\* source is requested at most once: not both the weather path and the
\* disasters path request the weather API for the key realtime_weather:all,
\* and not both the social path and the disasters path request the search.
C26_EachUpstreamOnce ==
    (/\ out.kind = "response" /\ out.filter = ""
     /\ \A s \in Sources : out.note[s].read = "absent") =>
        /\ ~("weather.gov" \in out.note["weather"].fetched
               /\ "weather.gov" \in out.note["disasters"].fetched)
        /\ ~("bluesky.search" \in out.note["socialMedia"].fetched
               /\ "bluesky.search" \in out.note["disasters"].fetched)

-----------------------------------------------------------------------------
(* Claims about the reports routes *)

\* the answer to a POST /api/reports that created a report with an image
CreatedWithImage ==
    /\ reply.kind = "reply" /\ reply.route = "POST /api/reports" /\ reply.status = 201
    /\ reply.input.body.image_url # ""

\* the verification of the request just answered produced no result: no
\* cached result was found and the download of the image or the call of the
\* vision model failed
VerificationFailed ==
    /\ ~reply.input.hit
    /\ (reply.input.fetched # "ok" \/ reply.input.vision.outcome = "throws")

-----------------------------------------------------------------------------
(* Claims about the in-memory fallback store *)

\* no two elements of a fixture array share an id
UniqueIds(records) ==
    \A i, j \in DOMAIN records : i # j => records[i].id # records[j].id

-----------------------------------------------------------------------------
(* Claims about the socket service of the frontend *)

====
